---- MODULE Spec2Model ----
(***************************************************************************)
(* Model of the mathbot streaming pipeline.                                *)
(*                                                                         *)
(*   relay     src/src/app/api/chat/route.ts  (POST, cleanLatex)           *)
(*   consumer  src/src/components/Chat.tsx    (sendMessage)                *)
(*   session   src/src/components/Chat.tsx    (conversations, effects)     *)
(*   practice  src/unnamed/part_003           (POST of /api/practice)      *)
(*   practice  src/unnamed/part_002           (PracticeMode, the page)     *)
(*                                                                         *)
(* Text is a sequence of one-character strings.  Fixed texts of the        *)
(* program that are never split or searched inside (the diagnostic         *)
(* prefixes and suffixes) are kept as one element each.                    *)
(*                                                                         *)
(* Wire encodings.  An upstream NDJSON line                                *)
(*     {"message":{"content":"<c>"},"done":<b>}                            *)
(* is written  "{" c "}"  when b is false and  "{" c "D" "}"  when b is    *)
(* true; every other line is one JSON.parse throws on.  An outbound frame  *)
(*     data: {"token":"<t>"}    is  "d" "T" t                              *)
(*     data: {"error":"<m>"}    is  "d" "E" m                              *)
(*     data: [DONE]             is  "d" "*"                                *)
(* each followed by two newlines.                                          *)
(***************************************************************************)
EXTENDS Integers, Sequences, FiniteSets, TLC

VARIABLES
    upResp,      \* model server: how it answers the relay's fetch
    upBody,      \* relay: the bytes the model server will deliver
    upPos,       \* relay: how many of them reader.read() has returned
    rpc,         \* relay: position in POST
    buffer,      \* relay: `buffer` (route.ts:134)
    out,         \* relay: events enqueued on the outbound stream, in order
    outState,    \* relay: outbound ReadableStream: none/open/closed/cancelled
    httpResp,    \* relay: the Response POST returned
    readFailed,  \* relay: reader.read() has rejected
    lateReads,   \* relay: reader.read() calls issued after the client left
    rejoined,    \* history: the last line a read completed from the buffer
    cpc,         \* consumer: position in sendMessage
    messages,    \* consumer: `messages`, the visible transcript
    loading,     \* consumer: `loading`
    streaming,   \* consumer: `streaming`
    abortCtl,    \* consumer: abortRef.current holds a controller
    ollamaError, \* consumer: `ollamaError`, the setup-required flag
    fullText,    \* consumer: `fullText` (Chat.tsx:399)
    cbuffer,     \* consumer: `buffer` (Chat.tsx:400)
    assistantId, \* consumer: `assistantId` (Chat.tsx:372)
    nextId,      \* consumer: the clock the ids are taken from
    sse,         \* consumer: the bytes of the response body
    cPos,        \* consumer: how many of them reader.read() has returned
    sends,       \* consumer: sendMessage calls that went through
    resolved,    \* history: fetch resolved with a response for this send
    processed,   \* history: the token values applied during this send
    updates,     \* history: the texts this send has set the placeholder to
    errSeen,     \* history: the error values met in frames during this send
    unread,      \* history: the send ended with bytes of the body unread
    outcome,     \* history: how the last send ended
    conv,        \* request: `messages` of the request body (route.ts:68)
    rqpc,        \* request: position in the construction of the model request
    walked,      \* request: messages the loop of route.ts:76 has visited
    ollamaMessages, \* request: `ollamaMessages` (route.ts:70)
    needsVision, \* request: `needsVision` (route.ts:74)
    model,       \* request: `model` (route.ts:101)
    fragment,    \* cleanLatex: the text it is called with
    clpc,        \* cleanLatex: how often it has been applied
    once,        \* cleanLatex: cleanLatex(fragment)
    twice,       \* cleanLatex: cleanLatex(cleanLatex(fragment))
    pAction,     \* practice: `action` of the request body (part_003:55)
    pUp,         \* model server: how it answers the practice fetch
    ppc,         \* practice: position in POST
    pSent,       \* practice: the requests made to the model server
    pResp,       \* practice: the Response POST returned
    input,       \* session: `input`, the text of the input box
    attachedFile, \* session: `attachedFile`
    conversations, \* session: `conversations`
    activeId,    \* session: `activeId`, NoActive for null
    stored,      \* session: localStorage["mathbot_conversations"]
    requests,    \* history: the requests the consumer has made to the relay
    upSent,      \* history: the requests this relay call has made upstream
    rejected,    \* history: the guard at which the last rejected call returned
    ops,         \* history: the other handlers of the page that have run
    stayed,      \* history: activeId has not changed since the last send
    practice,    \* page: `practice`, NoProblem for null
    userAnswer,  \* page: `userAnswer`
    feedback,    \* page: `feedback`, NoFeedback for null
    generating,  \* page: `generating`
    checking,    \* page: `checking`
    stats,       \* page: `stats`
    statsStored, \* page: localStorage["mathbot_practice_stats"], NoStats if unset
    calls,       \* page: the fetches of the page that have not settled
    started,     \* history: the fetches the page has started
    round,       \* history: the number of the last generateProblem call
    feedbackRound, \* history: the round of the call that set `feedback`
    graded       \* history: the answers graded, and those graded correct

relayVars == <<upResp, upBody, upPos, rpc, buffer, out, outState, httpResp,
               readFailed, lateReads, rejoined>>

consumerVars == <<cpc, messages, loading, streaming, abortCtl, ollamaError,
                  fullText, cbuffer, assistantId, nextId, sse, cPos, sends,
                  resolved, processed, updates, errSeen, unread,
                  outcome>>

requestVars == <<conv, rqpc, walked, ollamaMessages, needsVision, model>>

cleanVars == <<fragment, clpc, once, twice>>

pageVars == <<practice, userAnswer, feedback, generating, checking, stats,
              statsStored, calls, started, round, feedbackRound, graded>>

practiceVars == <<pAction, pUp, ppc, pSent, pResp, pageVars>>

inputVars == <<input, attachedFile, requests, rejected, ops>>

storeVars == <<conversations, activeId, stored, stayed>>

sessionVars == <<inputVars, storeVars, upSent>>

vars == <<relayVars, consumerVars, requestVars, cleanVars, practiceVars,
          sessionVars>>

(***************************************************************************)
(* Bounds                                                                  *)
(***************************************************************************)
MaxLines == 2
MaxLateReads == 1
MaxFrames == 2
MaxSends == 1
MaxMessages == 3
MaxPieces == 3
MaxBody == 2
MaxOps == 2
MaxCalls == 5

(***************************************************************************)
(* Text helpers                                                            *)
(***************************************************************************)
NL == "\n"

Whitespace == {" ", NL, "\t", "\r"}

Last(s) == s[Len(s)]

Front(s) == SubSeq(s, 1, Len(s) - 1)

\* s from index i to its end
From(s, i) == SubSeq(s, i, Len(s))

\* s has the literal lit at index i
HasAt(s, i, lit) ==
    /\ i >= 1
    /\ i + Len(lit) - 1 <= Len(s)
    /\ SubSeq(s, i, i + Len(lit) - 1) = lit

\* String.prototype.includes
Includes(s, lit) == \E i \in 1..(Len(s) + 1) : HasAt(s, i, lit)

\* String.prototype.trim
RECURSIVE TrimLeft(_)
TrimLeft(s) ==
    IF s # <<>> /\ s[1] \in Whitespace THEN TrimLeft(Tail(s)) ELSE s

RECURSIVE TrimRight(_)
TrimRight(s) ==
    IF s # <<>> /\ Last(s) \in Whitespace THEN TrimRight(Front(s)) ELSE s

Trim(s) == TrimRight(TrimLeft(s))

\* String.prototype.split(sep) for a non-empty separator: k separators give
\* k+1 segments, the last one being the text after the last separator
RECURSIVE SplitAcc(_, _, _)
SplitAcc(s, sep, cur) ==
    IF s = <<>> THEN <<cur>>
    ELSE IF HasAt(s, 1, sep)
         THEN <<cur>> \o SplitAcc(From(s, Len(sep) + 1), sep, <<>>)
         ELSE SplitAcc(Tail(s), sep, Append(cur, s[1]))

Split(s, sep) == SplitAcc(s, sep, <<>>)

RECURSIVE Flatten(_)
Flatten(ss) == IF ss = <<>> THEN <<>> ELSE ss[1] \o Flatten(Tail(ss))

(***************************************************************************)
(* cleanLatex (route.ts:41-63): a chain of String.prototype.replace calls  *)
(* with global regular expressions.  A pattern is a sequence of items:     *)
(*   lit    one character                                                  *)
(*   ws     \s*         greedy                                             *)
(*   lazy   (.*?)       lazy, capturing; with the s flag . takes newlines  *)
(*   dots   (\.*?)      lazy, capturing, literal dots only                 *)
(*   alpha  ([a-zA-Z]+) greedy, capturing                                  *)
(*   ref    \1                                                             *)
(*   liti   one character, either case (the i flag)                        *)
(*   ahead  (?=...)     a pattern that must match here, taking nothing     *)
(*   end    $                                                              *)
(* matched as a backtracking matcher does: leftmost start first, a greedy  *)
(* item from its longest run down, a lazy item from the empty run up.      *)
(* In a replacement string "$$" stands for one "$" and "$n" for group n,   *)
(* read left to right: '$$$$1$$' is the text $$1$ and '$$1' is the text    *)
(* $1, neither of which refers to the group.                               *)
(***************************************************************************)
BS == "\\"

Letters ==
    { "a", "b", "c", "d", "e", "f", "g", "h", "i", "j", "k", "l", "m",
      "n", "o", "p", "q", "r", "s", "t", "u", "v", "w", "x", "y", "z",
      "A", "B", "C", "D", "E", "F", "G", "H", "I", "J", "K", "L", "M",
      "N", "O", "P", "Q", "R", "S", "T", "U", "V", "W", "X", "Y", "Z" }

LineTerminators == { NL, "\r" }

Lit(text) ==
    [i \in 1..Len(text) |-> [k |-> "lit", c |-> text[i], g |-> 0, s |-> FALSE]]

Ws == << [k |-> "ws", c |-> "", g |-> 0, s |-> FALSE] >>

Lazy(group, sflag) == << [k |-> "lazy", c |-> "", g |-> group, s |-> sflag] >>

Dots(group) == << [k |-> "dots", c |-> "", g |-> group, s |-> FALSE] >>

Alpha(group) == << [k |-> "alpha", c |-> "", g |-> group, s |-> FALSE] >>

Ref(group) == << [k |-> "ref", c |-> "", g |-> group, s |-> FALSE] >>

LowerCase ==
    << "a", "b", "c", "d", "e", "f", "g", "h", "i", "j", "k", "l", "m",
       "n", "o", "p", "q", "r", "s", "t", "u", "v", "w", "x", "y", "z" >>

UpperCase ==
    << "A", "B", "C", "D", "E", "F", "G", "H", "I", "J", "K", "L", "M",
       "N", "O", "P", "Q", "R", "S", "T", "U", "V", "W", "X", "Y", "Z" >>

\* String.prototype.toUpperCase on one character
ToUpper(ch) ==
    IF \E i \in 1..Len(LowerCase) : LowerCase[i] = ch
    THEN UpperCase[CHOOSE i \in 1..Len(LowerCase) : LowerCase[i] = ch]
    ELSE ch

\* String.prototype.toUpperCase
ToUpperCase(text) == [i \in 1..Len(text) |-> ToUpper(text[i])]

LitI(text) ==
    [i \in 1..Len(text) |->
        [k |-> "liti", c |-> ToUpper(text[i]), g |-> 0, s |-> FALSE]]

Ahead(pattern) == << [k |-> "ahead", c |-> pattern, g |-> 0, s |-> FALSE] >>

End == << [k |-> "end", c |-> "", g |-> 0, s |-> FALSE] >>

\* a group reference in a replacement
Grp(group) == << [k |-> "grp", c |-> "", g |-> group, s |-> FALSE] >>

\* the characters a repeated item takes
Takes(item, ch) ==
    CASE item.k = "ws" -> ch \in Whitespace
      [] item.k = "lazy" -> item.s \/ ch \notin LineTerminators
      [] item.k = "dots" -> ch = "."
      [] item.k = "alpha" -> ch \in Letters
      [] OTHER -> FALSE

\* the length of the longest run from index j of s that item takes
RECURSIVE MaxRun(_, _, _)
MaxRun(item, s, j) ==
    IF j <= Len(s) /\ Takes(item, s[j]) THEN 1 + MaxRun(item, s, j + 1) ELSE 0

NoMatch == [ok |-> FALSE, end |-> 0, g |-> << <<>>, <<>> >>]

Capture(g, group, text) == IF group = 0 THEN g ELSE [g EXCEPT ![group] = text]

\* Match(p, i, s, j, g): items i.. of pattern p against s from index j, with
\* the groups g captured so far; end is the index of the last character taken
RECURSIVE Match(_, _, _, _, _)
RECURSIVE TryRun(_, _, _, _, _, _, _, _)
TryRun(p, i, s, j, g, n, stop, step) ==
    LET r == Match(p, i + 1, s, j + n,
                   Capture(g, p[i].g, SubSeq(s, j, j + n - 1)))
    IN  IF r.ok THEN r
        ELSE IF n = stop THEN NoMatch
        ELSE TryRun(p, i, s, j, g, n + step, stop, step)

Match(p, i, s, j, g) ==
    IF i > Len(p) THEN [ok |-> TRUE, end |-> j - 1, g |-> g]
    ELSE LET item == p[i]
             run == MaxRun(item, s, j)
         IN  CASE item.k = "lit" ->
                    IF j <= Len(s) /\ s[j] = item.c
                    THEN Match(p, i + 1, s, j + 1, g)
                    ELSE NoMatch
               [] item.k = "liti" ->
                    IF j <= Len(s) /\ ToUpper(s[j]) = item.c
                    THEN Match(p, i + 1, s, j + 1, g)
                    ELSE NoMatch
               [] item.k = "ahead" ->
                    IF Match(item.c, 1, s, j, g).ok
                    THEN Match(p, i + 1, s, j, g)
                    ELSE NoMatch
               [] item.k = "end" ->
                    IF j > Len(s) THEN Match(p, i + 1, s, j, g) ELSE NoMatch
               [] item.k = "ref" ->
                    IF HasAt(s, j, g[item.g])
                    THEN Match(p, i + 1, s, j + Len(g[item.g]), g)
                    ELSE NoMatch
               [] item.k = "ws" -> TryRun(p, i, s, j, g, run, 0, -1)
               [] item.k = "alpha" ->
                    IF run = 0 THEN NoMatch
                    ELSE TryRun(p, i, s, j, g, run, 1, -1)
               [] OTHER -> TryRun(p, i, s, j, g, 0, run, 1)

\* the replacement with its group references filled in
RECURSIVE Expand(_, _)
Expand(tpl, g) ==
    IF tpl = <<>> THEN <<>>
    ELSE (IF tpl[1].k = "grp" THEN g[tpl[1].g] ELSE <<tpl[1].c>>)
             \o Expand(Tail(tpl), g)

\* s.replace(rule.pat, rule.tpl) with the g flag, scanning from index i
RECURSIVE ReplaceFrom(_, _, _)
ReplaceFrom(rule, s, i) ==
    IF i > Len(s) THEN <<>>
    ELSE LET r == Match(rule.pat, 1, s, i, << <<>>, <<>> >>) IN
         IF r.ok
         THEN Expand(rule.tpl, r.g) \o ReplaceFrom(rule, s, r.end + 1)
         ELSE <<s[i]>> \o ReplaceFrom(rule, s, i + 1)

ReplaceAll(rule, s) == ReplaceFrom(rule, s, 1)

\* s.match(pattern) without the g flag: the leftmost match from index i on
RECURSIVE FirstMatch(_, _, _)
FirstMatch(pattern, s, i) ==
    IF i > Len(s) + 1 THEN NoMatch
    ELSE LET r == Match(pattern, 1, s, i, << <<>>, <<>> >>) IN
         IF r.ok THEN r ELSE FirstMatch(pattern, s, i + 1)

BeginOpen == <<BS, "b", "e", "g", "i", "n", "{">>

EndOpen == <<BS, "e", "n", "d", "{">>

FracOpen == <<BS, "f", "r", "a", "c", "{">>

SqrtOpen == <<BS, "s", "q", "r", "t", "{">>

\* route.ts:50-52: the three matrix rules
MatrixRule(name) ==
    [pat |-> Lit(BeginOpen \o name \o <<"}">>) \o Ws \o Lit(<<BS>>)
                \o Lazy(1, FALSE) \o Ws \o Lit(EndOpen \o name \o <<"}">>),
     tpl |-> Lit(<<BS>> \o BeginOpen \o name \o <<"}">>) \o Grp(1)
                \o Lit(<<BS>> \o EndOpen \o name \o <<"}">>)]

\* route.ts:59-60: the sum and integral rules
LimitsRule(name) ==
    [pat |-> Lit(<<"[">>) \o Ws \o Lit(<<BS>> \o name \o <<"_">>)
                \o Lazy(1, TRUE) \o Lit(<<"^">>) \o Dots(2) \o Ws
                \o Lit(<<"]">>),
     tpl |-> Lit(<<BS, BS>> \o name \o <<"_", "{">>) \o Grp(1)
                \o Lit(<<"}", "^", "{">>) \o Grp(2) \o Lit(<<"}">>)]

\* the rules of route.ts:44-62, in order
CleanRules ==
    << \* 44: /\[\s*\$\$(.*?)\$\$\s*\]/gs -> '$$$$1$$'
       [pat |-> Lit(<<"[">>) \o Ws \o Lit(<<"$", "$">>) \o Lazy(1, TRUE)
                   \o Lit(<<"$", "$">>) \o Ws \o Lit(<<"]">>),
        tpl |-> Lit(<<"$", "$", "1", "$">>)],
       \* 46: /\[\s*\$(.*?)\$\s*\]/gs -> '$$1'
       [pat |-> Lit(<<"[">>) \o Ws \o Lit(<<"$">>) \o Lazy(1, TRUE)
                   \o Lit(<<"$">>) \o Ws \o Lit(<<"]">>),
        tpl |-> Lit(<<"$", "1">>)],
       \* 48: /\[\s*\\begin\{(.*?)\}(.*?)\\end\{\1\}\s*\]/gs
       \*     -> '\\\\begin{$1}$2\\\\end{$1}'
       [pat |-> Lit(<<"[">>) \o Ws \o Lit(BeginOpen) \o Lazy(1, TRUE)
                   \o Lit(<<"}">>) \o Lazy(2, TRUE) \o Lit(EndOpen) \o Ref(1)
                   \o Lit(<<"}">>) \o Ws \o Lit(<<"]">>),
        tpl |-> Lit(<<BS>> \o BeginOpen) \o Grp(1) \o Lit(<<"}">>) \o Grp(2)
                   \o Lit(<<BS>> \o EndOpen) \o Grp(1) \o Lit(<<"}">>)],
       \* 50-52: /\\begin\{bmatrix\}\s*\\(.*?)\s*\\end\{bmatrix\}/g
       \*     -> '\\\\begin{bmatrix}$1\\\\end{bmatrix}'
       MatrixRule(<<"b", "m", "a", "t", "r", "i", "x">>),
       MatrixRule(<<"p", "m", "a", "t", "r", "i", "x">>),
       MatrixRule(<<"v", "m", "a", "t", "r", "i", "x">>),
       \* 54: /\\\\\s*\\\\/g -> '\\\\'
       [pat |-> Lit(<<BS, BS>>) \o Ws \o Lit(<<BS, BS>>),
        tpl |-> Lit(<<BS, BS>>)],
       \* 56: /\[\s*\\frac\{(.*?)\}\{(.*?)\}\s*\]/gs -> '\\\\frac{$1}{$2}'
       [pat |-> Lit(<<"[">>) \o Ws \o Lit(FracOpen) \o Lazy(1, TRUE)
                   \o Lit(<<"}", "{">>) \o Lazy(2, TRUE) \o Lit(<<"}">>)
                   \o Ws \o Lit(<<"]">>),
        tpl |-> Lit(<<BS>> \o FracOpen) \o Grp(1) \o Lit(<<"}", "{">>)
                   \o Grp(2) \o Lit(<<"}">>)],
       \* 58: /\[\s*\\sqrt\{(.*?)\}\s*\]/gs -> '\\\\sqrt{$1}'
       [pat |-> Lit(<<"[">>) \o Ws \o Lit(SqrtOpen) \o Lazy(1, TRUE)
                   \o Lit(<<"}">>) \o Ws \o Lit(<<"]">>),
        tpl |-> Lit(<<BS>> \o SqrtOpen) \o Grp(1) \o Lit(<<"}">>)],
       \* 59-60: /\[\s*\\sum_(.*?)\^(\.*?)\s*\]/gs -> '\\\\sum_{$1}^{$2}'
       LimitsRule(<<"s", "u", "m">>),
       LimitsRule(<<"i", "n", "t">>),
       \* 62: /\[\\([a-zA-Z]+)(.*?)\]/g -> '\\\\$1$2'
       [pat |-> Lit(<<"[", BS>>) \o Alpha(1) \o Lazy(2, FALSE)
                   \o Lit(<<"]">>),
        tpl |-> Lit(<<BS, BS>>) \o Grp(1) \o Grp(2)] >>

\* the first k rules applied in order
RECURSIVE ApplyRules(_, _)
ApplyRules(k, text) ==
    IF k = 0 THEN text ELSE ReplaceAll(CleanRules[k], ApplyRules(k - 1, text))

cleanLatex(text) == ApplyRules(Len(CleanRules), text)

(***************************************************************************)
(* Upstream lines and outbound events                                      *)
(***************************************************************************)
ContentChars == {"x", "y", "[", "$", "]", "1"}

\* JSON.parse of one upstream line (route.ts:148) with the fields the relay
\* reads: json.message?.content and json.done
JsonParse(line) ==
    LET t == Trim(line) IN
    IF /\ Len(t) >= 2
       /\ t[1] = "{"
       /\ Last(t) = "}"
    THEN LET body == SubSeq(t, 2, Len(t) - 1)
             done == body # <<>> /\ Last(body) = "D"
             content == IF done THEN Front(body) ELSE body
         IN  IF \A i \in 1..Len(content) : content[i] \in ContentChars
             THEN [ok |-> TRUE, content |-> content, done |-> done]
             ELSE [ok |-> FALSE, content |-> <<>>, done |-> FALSE]
    ELSE [ok |-> FALSE, content |-> <<>>, done |-> FALSE]

TokenEvent(t) == [type |-> "token", text |-> t]

DoneEvent == [type |-> "done", text |-> <<>>]

ErrorEvent(m) == [type |-> "error", text |-> m]

StreamInterrupted == <<"Stream interrupted">>

(***************************************************************************)
(* The model server's possible answers                                     *)
(***************************************************************************)
\* the lines a body is made of: a fragment, a fragment cleanLatex rewrites,
\* the completion flag alone and with a fragment, a truncated object
\* (JSON.parse throws), a blank line
LineKinds ==
    { <<"{", "x", "}">>,
      <<"{", "[", "$", "x", "$", "]", "}">>,
      <<"{", "D", "}">>,
      <<"{", "y", "D", "}">>,
      <<"{", "x">>,
      <<>> }

\* the lines of ls, each followed by a newline, except the last one when the
\* body does not end in a newline
RECURSIVE JoinLines(_, _)
JoinLines(ls, terminated) ==
    IF ls = <<>> THEN <<>>
    ELSE IF Len(ls) = 1 /\ ~terminated THEN ls[1]
    ELSE ls[1] \o <<NL>> \o JoinLines(Tail(ls), terminated)

LineSeqs == UNION { [1..n -> LineKinds] : n \in 0..MaxLines }

Bodies == { JoinLines(ls, b) : ls \in LineSeqs, b \in BOOLEAN }

ErrBodies == { <<"o", "o", "m">>, <<"b", "a", "d">> }

UpstreamAnswers ==
    { [kind |-> "ok", body |-> b] : b \in Bodies }
    \cup { [kind |-> "status", body |-> b] : b \in ErrBodies }
    \cup { [kind |-> "refused", body |-> <<>>],
           [kind |-> "failed", body |-> <<>>] }

(***************************************************************************)
(* Relay: POST of route.ts                                                 *)
(***************************************************************************)
NoResponse == [status |-> 0, error |-> <<>>]

StreamResponse == [status |-> 200, error |-> <<>>]

\* route.ts:188-191
ErrorResponse(message) == [status |-> 500, error |-> message]

\* a relay that reports the status without reading the error body
OllamaErrorMessageNoDetail(body) == <<"Ollama error (", "500", ")">>

\* route.ts:121
OllamaErrorMessage(body) == <<"Ollama error (", "500", "): ">> \o body

\* route.ts:185
CantConnectMessage ==
    <<"Can't connect to Ollama.",
      " Make sure Ollama is running (open the Ollama app or run 'ollama serve').">>

\* the message of the TypeError a failed fetch rejects with
FetchFailedMessage == <<"fetch failed">>

IsValidLine(line) == JsonParse(line).ok

IsMalformedLine(line) == Trim(line) # <<>> /\ ~JsonParse(line).ok

CarriesFragment(line) == JsonParse(line).ok /\ JsonParse(line).content # <<>>

\* the content fragments the lines carry, in order
Fragments(lines) ==
    LET with == SelectSeq(lines, CarriesFragment)
    IN  [i \in 1..Len(with) |-> JsonParse(with[i]).content]

CleanAll(fragments) ==
    [i \in 1..Len(fragments) |-> cleanLatex(fragments[i])]

\* controller.enqueue throws once the stream is no longer readable; the
\* events a line adds: the body of the for loop, route.ts:146-160.  A throw
\* inside the try (JSON.parse, enqueue) is swallowed by the catch of line 158.
LineEvents(line, open) ==
    IF Trim(line) = <<>> THEN <<>>
    ELSE LET json == JsonParse(line) IN
         IF ~json.ok \/ ~open THEN <<>>
         ELSE (IF json.content # <<>>
               THEN <<TokenEvent(cleanLatex(json.content))>>
               ELSE <<>>)
              \o (IF json.done THEN <<DoneEvent>> ELSE <<>>)

\* a relay whose for loop is left by the error of a malformed line
RECURSIVE ProcessLinesUntilMalformed(_, _)
ProcessLinesUntilMalformed(lines, open) ==
    IF lines = <<>> THEN <<>>
    ELSE IF Trim(lines[1]) # <<>> /\ ~JsonParse(lines[1]).ok THEN <<>>
    ELSE LineEvents(lines[1], open)
             \o ProcessLinesUntilMalformed(Tail(lines), open)

\* a relay that holds the fragments of one read back and emits them merged
\* into a single token event
ProcessLinesBatched(lines, open) ==
    LET frags == Fragments(lines)
    IN  IF open /\ frags # <<>>
        THEN <<TokenEvent(cleanLatex(Flatten(frags)))>>
        ELSE <<>>

\* the for loop of route.ts:145-161 over the complete lines of one read
RECURSIVE ProcessLines(_, _)
ProcessLines(lines, open) ==
    IF lines = <<>> THEN <<>>
    ELSE LineEvents(lines[1], open) \o ProcessLines(Tail(lines), open)

\* a relay that starts every read from an empty buffer
RemainderDropped(lines) == <<>>

\* route.ts:143: the segment after the last newline is kept for the next read
Remainder(lines) == Last(lines)

\* route.ts:141-161: what one read of `chunk` does to the buffer `buf`, and
\* the events it enqueues
ReadStep(buf, chunk, open) ==
    LET lines == Split(buf \o chunk, <<NL>>)
    IN  [buffer |-> Remainder(lines),
         events |-> ProcessLines(Front(lines), open)]

\* a request has arrived at POST
RelayInit ==
    /\ upResp \in UpstreamAnswers
    /\ upBody = upResp.body
    /\ upPos = 0
    /\ rpc = "fetch"
    /\ buffer = <<>>
    /\ out = <<>>
    /\ outState = "none"
    /\ httpResp = NoResponse
    /\ readFailed = FALSE
    /\ lateReads = 0
    /\ rejoined = <<>>

\* route.ts:103-131, 173-179: the model server answered with a success status
RelayFetchOk ==
    /\ rpc = "fetch"
    /\ upSent' = upSent + 1
    /\ upResp.kind = "ok"
    /\ rpc' = "reading"
    /\ outState' = "open"
    /\ httpResp' = StreamResponse
    /\ UNCHANGED <<upResp, upBody, upPos, buffer, out, readFailed, lateReads,
                   rejoined, consumerVars,
                   requestVars, cleanVars,
                   practiceVars,
                   inputVars, storeVars>>

\* a relay that repeats the request once when the status is not a success
RelayFetchNotOkRetry ==
    /\ rpc = "fetch"
    /\ upSent' = upSent + 1
    /\ upResp.kind = "status"
    /\ rpc' = IF upSent = 0 THEN "fetch" ELSE "failed"
    /\ httpResp' = IF upSent = 0 THEN httpResp
                   ELSE ErrorResponse(OllamaErrorMessage(upResp.body))
    /\ UNCHANGED <<upResp, upBody, upPos, buffer, out, outState, readFailed,
                   lateReads,
                   rejoined, consumerVars,
                   requestVars, cleanVars,
                   practiceVars,
                   inputVars, storeVars>>

\* route.ts:119-122, 180-191: a non-success status
RelayFetchNotOk ==
    /\ rpc = "fetch"
    /\ upSent' = upSent + 1
    /\ upResp.kind = "status"
    /\ rpc' = "failed"
    /\ httpResp' = ErrorResponse(OllamaErrorMessage(upResp.body))
    /\ UNCHANGED <<upResp, upBody, upPos, buffer, out, outState, readFailed,
                   lateReads,
                   rejoined, consumerVars,
                   requestVars, cleanVars,
                   practiceVars,
                   inputVars, storeVars>>

\* a relay whose catch does not look at the cause of the error
RelayFetchRefusedUnclassified ==
    /\ rpc = "fetch"
    /\ upSent' = upSent + 1
    /\ upResp.kind = "refused"
    /\ rpc' = "failed"
    /\ httpResp' = ErrorResponse(FetchFailedMessage)
    /\ UNCHANGED <<upResp, upBody, upPos, buffer, out, outState, readFailed,
                   lateReads,
                   rejoined, consumerVars,
                   requestVars, cleanVars,
                   practiceVars,
                   inputVars, storeVars>>

\* route.ts:103, 180-191: fetch rejects, cause.code ECONNREFUSED
RelayFetchRefused ==
    /\ rpc = "fetch"
    /\ upSent' = upSent + 1
    /\ upResp.kind = "refused"
    /\ rpc' = "failed"
    /\ httpResp' = ErrorResponse(CantConnectMessage)
    /\ UNCHANGED <<upResp, upBody, upPos, buffer, out, outState, readFailed,
                   lateReads,
                   rejoined, consumerVars,
                   requestVars, cleanVars,
                   practiceVars,
                   inputVars, storeVars>>

\* route.ts:103, 180-191: fetch rejects for another cause
RelayFetchFailed ==
    /\ rpc = "fetch"
    /\ upSent' = upSent + 1
    /\ upResp.kind = "failed"
    /\ rpc' = "failed"
    /\ httpResp' = ErrorResponse(FetchFailedMessage)
    /\ UNCHANGED <<upResp, upBody, upPos, buffer, out, outState, readFailed,
                   lateReads,
                   rejoined, consumerVars,
                   requestVars, cleanVars,
                   practiceVars,
                   inputVars, storeVars>>

\* route.ts:138-161: reader.read() returns the next n bytes
RelayRead(n) ==
    /\ rpc = "reading"
    /\ upPos + n <= Len(upBody)
    /\ outState = "cancelled" => lateReads < MaxLateReads
    /\ LET step == ReadStep(buffer, SubSeq(upBody, upPos + 1, upPos + n),
                            outState = "open")
       IN  /\ buffer' = step.buffer
           /\ out' = out \o step.events
    /\ upPos' = upPos + n
    /\ lateReads' = IF outState = "cancelled" THEN lateReads + 1 ELSE lateReads
    /\ LET lines == Split(buffer \o SubSeq(upBody, upPos + 1, upPos + n), <<NL>>)
       IN  rejoined' = IF buffer # <<>> /\ Len(lines) >= 2
                       THEN lines[1]
                       ELSE rejoined
    /\ UNCHANGED <<upResp, upBody, rpc, outState, httpResp, readFailed,
                   consumerVars,
                   requestVars, cleanVars,
                   practiceVars,
                   sessionVars>>

\* a finally block that does not close the stream
CloseOutboundNever == outState

\* controller.close() (route.ts:168); it throws on a stream that is not open
CloseOutbound == IF outState = "open" THEN "closed" ELSE outState

\* a relay that leaves the read loop at the end of the body without closing
RelayReadDoneLeftOpen ==
    /\ rpc = "reading"
    /\ upPos = Len(upBody)
    /\ rpc' = "closed"
    /\ UNCHANGED <<upResp, upBody, upPos, buffer, out, outState, httpResp,
                   readFailed, lateReads, rejoined, consumerVars,
                   requestVars, cleanVars,
                   practiceVars,
                   sessionVars>>

\* route.ts:138-139, 167-169: reader.read() reports the end of the body
RelayReadDone ==
    /\ rpc = "reading"
    /\ upPos = Len(upBody)
    /\ rpc' = "closed"
    /\ outState' = CloseOutbound
    /\ UNCHANGED <<upResp, upBody, upPos, buffer, out, httpResp, readFailed,
                   lateReads,
                   rejoined, consumerVars,
                   requestVars, cleanVars,
                   practiceVars,
                   sessionVars>>

\* a relay that closes the stream on a failed read without an error event
RelayReadErrorSilent ==
    /\ rpc = "reading"
    /\ readFailed' = TRUE
    /\ rpc' = "closed"
    /\ outState' = CloseOutbound
    /\ UNCHANGED <<upResp, upBody, upPos, buffer, out, httpResp, lateReads,
                   rejoined, consumerVars,
                   requestVars, cleanVars,
                   practiceVars,
                   sessionVars>>

\* route.ts:163-169: reader.read() rejects
RelayReadError ==
    /\ rpc = "reading"
    /\ readFailed' = TRUE
    /\ out' = IF outState = "open"
              THEN Append(out, ErrorEvent(StreamInterrupted))
              ELSE out
    /\ rpc' = "closed"
    /\ outState' = CloseOutbound
    /\ UNCHANGED <<upResp, upBody, upPos, buffer, httpResp, lateReads,
                   rejoined, consumerVars,
                   requestVars, cleanVars,
                   practiceVars,
                   sessionVars>>

\* the client leaves: the outbound stream is cancelled.  The stream has no
\* cancel callback (route.ts:125-171) and fetch no signal (route.ts:103-117)
ClientDisconnect ==
    /\ outState = "open"
    /\ outState' = "cancelled"
    /\ UNCHANGED <<upResp, upBody, upPos, rpc, buffer, out, httpResp,
                   readFailed, lateReads,
                   rejoined, consumerVars,
                   requestVars, cleanVars,
                   practiceVars,
                   sessionVars>>

RelayNext ==
    \/ RelayFetchOk
    \/ RelayFetchNotOk
    \/ RelayFetchRefused
    \/ RelayFetchFailed
    \/ \E n \in 1..Len(upBody) : RelayRead(n)
    \/ RelayReadDone
    \/ RelayReadError
    \/ ClientDisconnect


(***************************************************************************)
(* The outbound wire: what the relay enqueues for an event                 *)
(***************************************************************************)
DataPrefix == "data: "

DoneSentinel == "[DONE]"

\* JSON.stringify of the event object (route.ts:152, 165) and the literal of
\* route.ts:156
Payload(e) ==
    IF e.type = "token" THEN <<"T">> \o e.text
    ELSE IF e.type = "error" THEN <<"E">> \o e.text
    ELSE <<DoneSentinel>>

\* route.ts:152, 156, 165: `data: ${...}\n\n`
EncodeEvent(e) == <<DataPrefix>> \o Payload(e) \o <<NL, NL>>

RECURSIVE EncodeEvents(_)
EncodeEvents(es) ==
    IF es = <<>> THEN <<>> ELSE EncodeEvent(es[1]) \o EncodeEvents(Tail(es))

\* the events a response body is made of: a token, the sentinel, the relay's
\* error event, an error event with another message, and a frame whose
\* payload JSON.parse throws on
FrameKinds ==
    { EncodeEvent(TokenEvent(<<"x">>)),
      EncodeEvent(DoneEvent),
      EncodeEvent(ErrorEvent(StreamInterrupted)),
      EncodeEvent(ErrorEvent(<<"b", "o", "o", "m">>)),
      <<DataPrefix, "?", NL, NL>> }

FrameSeqs == UNION { [1..n -> FrameKinds] : n \in 0..MaxFrames }

SseStreams == { Flatten(fs) : fs \in FrameSeqs }

(***************************************************************************)
(* Consumer: sendMessage of Chat.tsx                                       *)
(***************************************************************************)
\* the head of a data URI, which /^data:image\/\w+;base64,/ matches
DataUriHead == "data:image/png;base64,"

NoFile == [type |-> "none", name |-> <<>>, data |-> <<>>]

ImageFile == [type |-> "image", name |-> <<"i">>, data |-> <<DataUriHead, "A">>]

TextFile == [type |-> "text", name |-> <<"f">>, data |-> <<"2">>]

\* a || b on strings
OrElse(a, b) == IF a # <<>> THEN a ELSE b

\* the texts a user types
Texts == { <<"q">> }

\* Chat.tsx:140: activeId is null
NoActive == 0

\* Chat.tsx:347: the text of a message sent with an attachment and no text
AttachmentText(file) ==
    IF file.type = "image" THEN <<"Solve the math in this image">>
    ELSE <<"Solve the math in this file">>

\* Chat.tsx:344-349: fileData is undefined when nothing is attached
SentMessage(id, text, file) ==
    IF file = NoFile THEN [id |-> id, role |-> "user", text |-> text]
    ELSE [id |-> id, role |-> "user", text |-> text, fileData |-> file]

\* Chat.tsx:361-366; the title and the creation time are not modelled
Conversation(id, msgs) == [id |-> id, messages |-> msgs]

\* a conversation of an earlier session
OldConversation ==
    Conversation(-1, << [id |-> -3, role |-> "user", text |-> <<"q">>],
                        [id |-> -2, role |-> "assistant", text |-> <<"x">>] >>)

\* a session in which the transcript is never copied to the conversations
SyncMissing(convs, act, msgs) == convs

\* Chat.tsx:181-188: the effect that copies the transcript into the active
\* conversation
Sync(convs, act, msgs) ==
    IF act # NoActive /\ msgs # <<>>
    THEN [i \in 1..Len(convs) |->
             IF convs[i].id = act THEN [convs[i] EXCEPT !.messages = msgs]
             ELSE convs[i]]
    ELSE convs

\* Chat.tsx:174-188: the effects that run after a handler has left
\* `conversations` as convs and localStorage as saved: the sync effect when
\* messages or activeId changed, then the save effect when conversations
\* changed and is not empty
Committed(convs, saved) ==
    /\ conversations' = IF messages' # messages \/ activeId' # activeId
                        THEN Sync(convs, activeId', messages')
                        ELSE convs
    /\ stored' = IF conversations' # conversations /\ conversations' # <<>>
                 THEN conversations'
                 ELSE saved

\* a step of sendMessage after its first await: it sets `messages` at most
Rendered ==
    /\ UNCHANGED <<input, attachedFile, activeId, requests, upSent, rejected,
                   ops, stayed>>
    /\ Committed(conversations, stored)


UserMessage(id, text) == [id |-> id, role |-> "user", text |-> text]

AssistantMessage(id, text) == [id |-> id, role |-> "assistant", text |-> text]

\* Chat.tsx:417: line.replace(/^data: /, "").trim()
StripFrame(line) ==
    Trim(IF line # <<>> /\ line[1] = DataPrefix THEN Tail(line) ELSE line)

\* JSON.parse of a frame's payload (Chat.tsx:421) with the fields read:
\* json.token and json.error
ParseFrame(t) ==
    IF t # <<>> /\ t[1] = "T"
    THEN [ok |-> TRUE, token |-> Tail(t), error |-> <<>>]
    ELSE IF t # <<>> /\ t[1] = "E"
    THEN [ok |-> TRUE, token |-> <<>>, error |-> Tail(t)]
    ELSE [ok |-> FALSE, token |-> <<>>, error |-> <<>>]

\* a consumer that keeps only the last token
AccumulateLast(text, token) == token

\* Chat.tsx:423: fullText += json.token
Accumulate(text, token) == text \o token

\* Chat.tsx:434: which errors thrown inside the frame's try leave the loop
Rethrown(message) == message = StreamInterrupted

\* the for loop of Chat.tsx:416-436 over the complete frames of one read,
\* from the accumulator st = [fullText, processed, updates, errSeen, thrown];
\* updates holds the text of each setMessages call of 424-428, thrown is the
\* message of the error that left the loop, <<>> while there is none
RECURSIVE ConsumeFrames(_, _)
ConsumeFrames(lines, st) ==
    IF lines = <<>> THEN st
    ELSE LET t == StripFrame(lines[1])
             json == ParseFrame(t)
         IN  IF t = <<>> \/ t = <<DoneSentinel>> \/ ~json.ok
             THEN ConsumeFrames(Tail(lines), st)
             ELSE LET st1 == IF json.token # <<>>
                             THEN [st EXCEPT
                                     !.fullText = Accumulate(@, json.token),
                                     !.processed = Append(@, json.token),
                                     !.updates =
                                         Append(@, Accumulate(st.fullText,
                                                              json.token))]
                             ELSE st
                      st2 == IF json.error # <<>>
                             THEN [st1 EXCEPT !.errSeen = Append(@, json.error)]
                             ELSE st1
                  IN  IF json.error # <<>> /\ Rethrown(json.error)
                      THEN [st2 EXCEPT !.thrown = json.error]
                      ELSE ConsumeFrames(Tail(lines), st2)

\* Chat.tsx:424-428, 441-445, 459-461: prev.map(m => m.id === id ? {...m, text} : m)
SetText(msgs, id, text) ==
    [i \in 1..Len(msgs) |->
        IF msgs[i].id = id THEN [msgs[i] EXCEPT !.text = text] ELSE msgs[i]]

\* the texts that contain "Ollama" or "ECONNREFUSED"
OllamaTexts ==
    { "Ollama error (", CantConnectMessage[1], ". Make sure Ollama is running." }

\* Chat.tsx:451
IsOllamaError(message) ==
    \/ \E i \in 1..Len(message) : message[i] \in OllamaTexts
    \/ Includes(message, <<"O", "l", "l", "a", "m", "a">>)
    \/ Includes(message, <<"ECONNREFUSED">>)

\* Chat.tsx:455
ErrorText(message) ==
    <<"Error: ">> \o message \o <<". Make sure Ollama is running.">>

\* a catch that appends the diagnostic whether or not the placeholder is there
WithErrorAppended(msgs, id, message) ==
    Append(msgs, AssistantMessage(id, ErrorText(message)))

\* Chat.tsx:456-464
WithError(msgs, id, message) ==
    IF \E i \in 1..Len(msgs) : msgs[i].id = id
    THEN SetText(msgs, id, ErrorText(message))
    ELSE Append(msgs, AssistantMessage(id, ErrorText(message)))

ConsumerInit ==
    /\ cpc = "idle"
    /\ messages = <<>>
    /\ loading = FALSE
    /\ streaming = FALSE
    /\ abortCtl = FALSE
    /\ ollamaError = FALSE
    /\ fullText = <<>>
    /\ cbuffer = <<>>
    /\ assistantId = 0
    /\ nextId = 1
    /\ sse = <<>>
    /\ cPos = 0
    /\ sends = 0
    /\ resolved = FALSE
    /\ processed = <<>>
    /\ updates = <<>>
    /\ errSeen = <<>>
    /\ unread = FALSE
    /\ outcome = "none"

\* the session of a specification without the consumer
SessionAbsent ==
    /\ input = <<>>
    /\ attachedFile = NoFile
    /\ conversations = <<>>
    /\ activeId = NoActive
    /\ stored = <<>>
    /\ requests = 0
    /\ upSent = 0
    /\ rejected = "none"
    /\ ops = 0
    /\ stayed = FALSE

\* Chat.tsx:139-165: the component is mounted, the conversations are those
\* of localStorage, and the user has typed a text
SessionInit(saved) ==
    /\ input \in Texts
    /\ attachedFile = NoFile
    /\ conversations = saved
    /\ activeId = NoActive
    /\ stored = saved
    /\ requests = 0
    /\ upSent = 0
    /\ rejected = "none"
    /\ ops = 0
    /\ stayed = FALSE

\* no request has reached POST yet
RelayIdle ==
    /\ upResp = [kind |-> "none", body |-> <<>>]
    /\ upBody = <<>>
    /\ upPos = 0
    /\ rpc = "idle"
    /\ buffer = <<>>
    /\ out = <<>>
    /\ outState = "none"
    /\ httpResp = NoResponse
    /\ readFailed = FALSE
    /\ lateReads = 0
    /\ rejoined = <<>>

\* the answers of the model server to a request of the consumer; the body of
\* a success answer reaches the consumer as `sse`
ConsumerUpstreamAnswers ==
    { [kind |-> "ok", body |-> <<>>] }
    \cup { [kind |-> "status", body |-> b] : b \in ErrBodies }
    \cup { [kind |-> "refused", body |-> <<>>],
           [kind |-> "failed", body |-> <<>>] }

\* Chat.tsx:340: (overrideText || input).trim(); the component never passes
\* overrideText
Trimmed == Trim(input)

\* Chat.tsx:341: nothing to send
NothingToSend == Trimmed = <<>> /\ attachedFile = NoFile

\* a consumer without the guard of line 342
BusyNever == FALSE

\* Chat.tsx:342
Busy == loading

\* the sends that have ended
Completed == IF cpc = "idle" THEN sends ELSE sends - 1

\* Chat.tsx:339-342: sendMessage returns at one of its guards
SendRejected ==
    /\ NothingToSend \/ Busy
    /\ rejected' = IF NothingToSend THEN "empty" ELSE "busy"
    /\ UNCHANGED <<input, attachedFile, requests, ops, storeVars, upSent,
                   relayVars, consumerVars, requestVars, cleanVars,
                   practiceVars>>

\* Chat.tsx:339-388: sendMessage up to the fetch, which reaches POST
SendMessage ==
    /\ ~NothingToSend
    /\ ~Busy
    /\ LET userMessage ==
               SentMessage(nextId,
                           OrElse(Trimmed, AttachmentText(attachedFile)),
                           attachedFile)
           newMessages == Append(messages, userMessage)
       IN  /\ messages' = newMessages
           /\ activeId' = IF activeId = NoActive THEN nextId ELSE activeId
           /\ Committed(IF activeId = NoActive
                        THEN <<Conversation(nextId, newMessages)>>
                                 \o conversations
                        ELSE conversations,
                        stored)
    /\ input' = <<>>
    /\ attachedFile' = NoFile
    /\ stayed' = TRUE
    /\ requests' = requests + 1
    /\ upSent' = 0
    /\ sends' = sends + 1
    /\ loading' = TRUE
    /\ streaming' = TRUE
    /\ assistantId' = nextId + 1
    /\ nextId' = nextId + 2
    /\ abortCtl' = TRUE
    /\ cpc' = "fetching"
    /\ fullText' = <<>>
    /\ cbuffer' = <<>>
    /\ sse' = <<>>
    /\ cPos' = 0
    /\ resolved' = FALSE
    /\ processed' = <<>>
    /\ updates' = <<>>
    /\ errSeen' = <<>>
    /\ unread' = FALSE
    /\ outcome' = "none"
    /\ upResp' \in ConsumerUpstreamAnswers
    /\ upBody' = <<>>
    /\ upPos' = 0
    /\ rpc' = "fetch"
    /\ buffer' = <<>>
    /\ out' = <<>>
    /\ outState' = "none"
    /\ httpResp' = NoResponse
    /\ readFailed' = FALSE
    /\ lateReads' = 0
    /\ rejoined' = <<>>
    /\ UNCHANGED <<ollamaError, rejected, ops, requestVars, cleanVars,
                   practiceVars>>

\* sendMessage returns: its locals and its reader are gone
Returned ==
    /\ fullText' = <<>>
    /\ cbuffer' = <<>>
    /\ sse' = <<>>
    /\ cPos' = 0

\* a catch whose send has no finally block
FailNoFinally(message) ==
    /\ ollamaError' = (ollamaError \/ IsOllamaError(message))
    /\ messages' = WithError(messages, assistantId, message)
    /\ cpc' = "idle"
    /\ UNCHANGED <<loading, streaming, abortCtl>>

\* Chat.tsx:447-469 for an error that is no AbortError: the catch, then the
\* finally
Fail(message) ==
    /\ ollamaError' = (ollamaError \/ IsOllamaError(message))
    /\ messages' = WithError(messages, assistantId, message)
    /\ loading' = FALSE
    /\ streaming' = FALSE
    /\ abortCtl' = FALSE
    /\ cpc' = "idle"

\* Chat.tsx:390-393: the response is not ok
ConsumerFetchNotOk ==
    /\ outcome' = "error"
    /\ cpc = "fetching"
    /\ httpResp.status = 500
    /\ resolved' = TRUE
    /\ Fail(IF httpResp.error # <<>> THEN httpResp.error
            ELSE <<"Request failed">>)
    /\ Returned
    /\ UNCHANGED <<assistantId, nextId, sends, processed, updates, errSeen,
                   unread, relayVars,
                   requestVars, cleanVars,
                   practiceVars>>
    /\ Rendered

\* a consumer that starts reading without appending the placeholder
ConsumerFetchOkNoPlaceholder(s) ==
    /\ cpc = "fetching"
    /\ httpResp.status = 200
    /\ resolved' = TRUE
    /\ sse' = s
    /\ cpc' = "streaming"
    /\ UNCHANGED <<messages, loading, streaming, abortCtl, ollamaError,
                   fullText, cbuffer, assistantId, nextId, cPos, sends,
                   processed, updates, errSeen, unread, outcome, relayVars,
                   requestVars, cleanVars,
                   practiceVars,
                   sessionVars>>

\* Chat.tsx:395-406: the response is ok: the placeholder is appended.  s is
\* the body the relay is going to stream
ConsumerFetchOk(s) ==
    /\ cpc = "fetching"
    /\ httpResp.status = 200
    /\ resolved' = TRUE
    /\ sse' = s
    /\ messages' = Append(messages, AssistantMessage(assistantId, <<>>))
    /\ cpc' = "streaming"
    /\ UNCHANGED <<loading, streaming, abortCtl, ollamaError, fullText,
                   cbuffer, assistantId, nextId, cPos, sends, processed,
                   updates, errSeen, unread, outcome, relayVars,
                   requestVars, cleanVars,
                   practiceVars>>
    /\ Rendered

\* Chat.tsx:377: fetch rejects, the relay was not reached
ConsumerFetchReject ==
    /\ outcome' = "error"
    /\ cpc = "fetching"
    /\ Fail(<<"Failed to fetch">>)
    /\ Returned
    /\ UNCHANGED <<assistantId, nextId, sends, resolved, processed, updates,
                   errSeen, unread, relayVars,
                   requestVars, cleanVars,
                   practiceVars>>
    /\ Rendered

\* a consumer that starts every read from an empty buffer
FrameRemainderDropped(lines) == <<>>

\* Chat.tsx:414: the text after the last blank line is kept for the next read
FrameRemainder(lines) == Last(lines)

\* Chat.tsx:409-436 (and 447-469 when an error leaves the loop):
\* reader.read() returns the next n bytes
ConsumerRead(n) ==
    /\ cpc = "streaming"
    /\ cPos + n <= Len(sse)
    /\ LET lines == Split(cbuffer \o SubSeq(sse, cPos + 1, cPos + n), <<NL, NL>>)
           st == ConsumeFrames(Front(lines),
                               [fullText |-> fullText, processed |-> processed,
                                updates |-> updates, errSeen |-> errSeen,
                                thrown |-> <<>>])
           shown == IF st.updates # updates
                    THEN SetText(messages, assistantId, st.fullText)
                    ELSE messages
       IN  /\ processed' = st.processed
           /\ updates' = st.updates
           /\ errSeen' = st.errSeen
           /\ IF st.thrown = <<>>
              THEN /\ messages' = shown
                   /\ cbuffer' = FrameRemainder(lines)
                   /\ fullText' = st.fullText
                   /\ cPos' = cPos + n
                   /\ UNCHANGED <<cpc, loading, streaming, abortCtl,
                                  ollamaError, outcome, sse, unread>>
              ELSE /\ ollamaError' = (ollamaError \/ IsOllamaError(st.thrown))
                   /\ messages' = WithError(shown, assistantId, st.thrown)
                   /\ loading' = FALSE
                   /\ streaming' = FALSE
                   /\ abortCtl' = FALSE
                   /\ cpc' = "idle"
                   /\ outcome' = "error"
                   /\ unread' = (cPos + n < Len(sse))
                   /\ Returned
    /\ UNCHANGED <<assistantId, nextId, sends, resolved, relayVars,
                   requestVars, cleanVars,
                   practiceVars>>
    /\ Rendered

\* Chat.tsx:409-410, 439-446, 465-469: the body has ended
ConsumerReadDone ==
    /\ cpc = "streaming"
    /\ cPos = Len(sse)
    /\ messages' = IF fullText # <<>>
                   THEN SetText(messages, assistantId, fullText)
                   ELSE messages
    /\ loading' = FALSE
    /\ streaming' = FALSE
    /\ abortCtl' = FALSE
    /\ cpc' = "idle"
    /\ outcome' = "success"
    /\ Returned
    /\ UNCHANGED <<ollamaError, assistantId, nextId, sends, resolved,
                   processed, updates, errSeen, unread, relayVars,
                   requestVars, cleanVars,
                   practiceVars>>
    /\ Rendered

\* Chat.tsx:409, 447-469: reader.read() rejects, the connection was lost
ConsumerReadFail ==
    /\ outcome' = "error"
    /\ cpc = "streaming"
    /\ Fail(<<"network error">>)
    /\ unread' = (cPos < Len(sse))
    /\ Returned
    /\ UNCHANGED <<assistantId, nextId, sends, resolved, processed, updates,
                   errSeen, relayVars,
                   requestVars, cleanVars,
                   practiceVars>>
    /\ Rendered

\* a consumer whose catch treats an AbortError like any other error
AbortedAsFailure == Fail(<<"The operation was aborted">>)

\* Chat.tsx:447-448, 465-469: what the catch does with an AbortError
Aborted ==
    /\ loading' = FALSE
    /\ streaming' = FALSE
    /\ abortCtl' = FALSE
    /\ cpc' = "idle"
    /\ UNCHANGED <<messages, ollamaError>>

\* Chat.tsx:375, 387: the signal of abortRef.current is aborted while the
\* fetch or a read is pending, which then rejects with an AbortError
ConsumerAbort ==
    /\ cpc \in {"fetching", "streaming"}
    /\ abortCtl
    /\ outcome' = "aborted"
    /\ Aborted
    /\ unread' = (cPos < Len(sse))
    /\ Returned
    /\ UNCHANGED <<assistantId, nextId, sends, resolved, processed, updates,
                   errSeen, relayVars,
                   requestVars, cleanVars,
                   practiceVars,
                   sessionVars>>

ConsumerNext ==
    \/ sends < MaxSends /\ SendMessage
    \/ RelayFetchOk
    \/ RelayFetchNotOk
    \/ RelayFetchRefused
    \/ RelayFetchFailed
    \/ ConsumerFetchNotOk
    \/ \E s \in SseStreams : ConsumerFetchOk(s)
    \/ ConsumerFetchReject
    \/ \E n \in 1..Len(sse) : ConsumerRead(n)
    \/ ConsumerReadDone
    \/ ConsumerReadFail
    \/ ConsumerAbort

(***************************************************************************)
(* Session: the handlers of Chat.tsx around sendMessage                    *)
(***************************************************************************)
\* Chat.tsx:852: the user types into the input box
TypeInput(text) ==
    /\ input # text
    /\ ops < MaxOps
    /\ ops' = ops + 1
    /\ input' = text
    /\ UNCHANGED <<attachedFile, requests, rejected, storeVars, upSent,
                   relayVars, consumerVars, requestVars, cleanVars,
                   practiceVars>>

\* Chat.tsx:310-333: a file is dropped or selected
AttachFile(file) ==
    /\ attachedFile # file
    /\ ops < MaxOps
    /\ ops' = ops + 1
    /\ attachedFile' = file
    /\ UNCHANGED <<input, requests, rejected, storeVars, upSent,
                   relayVars, consumerVars, requestVars, cleanVars,
                   practiceVars>>

\* Chat.tsx:238-245
NewChat ==
    /\ messages # <<>> \/ activeId # NoActive
    /\ ops < MaxOps
    /\ ops' = ops + 1
    /\ messages' = <<>>
    /\ activeId' = NoActive
    /\ input' = <<>>
    /\ attachedFile' = NoFile
    /\ stayed' = FALSE
    /\ Committed(conversations, stored)
    /\ UNCHANGED <<requests, rejected, upSent, cpc, loading, streaming,
                   abortCtl, ollamaError, fullText, cbuffer, assistantId,
                   nextId, sse, cPos, sends, resolved, processed, updates,
                   errSeen, unread, outcome, relayVars, requestVars,
                   cleanVars, practiceVars>>

\* Chat.tsx:247-252: a conversation of the sidebar is opened
LoadConversation(i) ==
    /\ i \in 1..Len(conversations)
    /\ ops < MaxOps
    /\ ops' = ops + 1
    /\ messages' = conversations[i].messages
    /\ activeId' = conversations[i].id
    /\ stayed' = (stayed /\ conversations[i].id = activeId)
    /\ Committed(conversations, stored)
    /\ UNCHANGED <<input, attachedFile, requests, rejected, upSent, cpc,
                   loading, streaming, abortCtl, ollamaError, fullText,
                   cbuffer, assistantId, nextId, sse, cPos, sends, resolved,
                   processed, updates, errSeen, unread, outcome, relayVars,
                   requestVars, cleanVars, practiceVars>>

\* Chat.tsx:254-264: a conversation of the sidebar is deleted
DeleteConversation(i) ==
    /\ i \in 1..Len(conversations)
    /\ ops < MaxOps
    /\ ops' = ops + 1
    /\ LET id == conversations[i].id
           updated == SelectSeq(conversations, LAMBDA c : c.id # id)
       IN  /\ messages' = IF activeId = id THEN <<>> ELSE messages
           /\ activeId' = IF activeId = id THEN NoActive ELSE activeId
           /\ stayed' = (stayed /\ activeId # id)
           /\ Committed(updated, updated)
    /\ UNCHANGED <<input, attachedFile, requests, rejected, upSent, cpc,
                   loading, streaming, abortCtl, ollamaError, fullText,
                   cbuffer, assistantId, nextId, sse, cPos, sends, resolved,
                   processed, updates, errSeen, unread, outcome, relayVars,
                   requestVars, cleanVars, practiceVars>>

\* the consumer is not part of the relay's specification
ConsumerAbsent ==
    /\ cpc = "absent"
    /\ messages = <<>>
    /\ loading = FALSE
    /\ streaming = FALSE
    /\ abortCtl = FALSE
    /\ ollamaError = FALSE
    /\ fullText = <<>>
    /\ cbuffer = <<>>
    /\ assistantId = 0
    /\ nextId = 1
    /\ sse = <<>>
    /\ cPos = 0
    /\ sends = 0
    /\ resolved = FALSE
    /\ processed = <<>>
    /\ updates = <<>>
    /\ errSeen = <<>>
    /\ unread = FALSE
    /\ outcome = "none"

(***************************************************************************)
(* The model request: POST of route.ts, lines 67-101                       *)
(***************************************************************************)
\* route.ts:4: process.env.OLLAMA_MODEL || "qwen2.5:7b"
MODEL == "qwen2.5:7b"

\* route.ts:101: process.env.OLLAMA_VISION_MODEL || "llava"
VisionModel == "llava"

\* route.ts:6-32
SYSTEM_PROMPT == <<"You are an expert math tutor ...">>

\* the messages a request body is made of: user messages with and without
\* text and attachment, an assistant message, and an assistant message that
\* carries an image
MessageKinds ==
    { [role |-> "user", text |-> x, fileData |-> f] :
          x \in { <<>>, <<"q">> }, f \in { NoFile, ImageFile, TextFile } }
    \cup { [role |-> "assistant", text |-> <<"a">>, fileData |-> f] :
               f \in { NoFile, ImageFile } }

Conversations == UNION { [1..n -> MessageKinds] : n \in 0..MaxMessages }

\* route.ts:81
StripDataUri(data) ==
    IF data # <<>> /\ data[1] = DataUriHead THEN Tail(data) ELSE data

OllamaMessage(role, content, images) ==
    [role |-> role, content |-> content, images |-> images]

\* a relay that gives an empty user text the default of the image branch
PushedDefaulted(msg) ==
    IF msg.role = "user"
    THEN OllamaMessage("user",
             OrElse(msg.text, <<"Analyze and solve the math in this image.">>),
             IF msg.fileData.type = "image"
             THEN <<StripDataUri(msg.fileData.data)>> ELSE <<>>)
    ELSE OllamaMessage("assistant", msg.text, <<>>)

\* route.ts:77-98: the entry the loop pushes for msg
Pushed(msg) ==
    IF msg.role = "user"
    THEN IF msg.fileData # NoFile
         THEN IF msg.fileData.type = "image"
              THEN OllamaMessage("user",
                       OrElse(msg.text,
                              <<"Analyze and solve the math in this image.">>),
                       <<StripDataUri(msg.fileData.data)>>)
              ELSE OllamaMessage("user",
                       OrElse(msg.text,
                              <<"Solve the math problems in this file.">>)
                           \o <<NL, NL, "[Uploaded file: ">> \o msg.fileData.name
                           \o <<"]", NL, NL, "File contents:", NL>>
                           \o msg.fileData.data,
                       <<>>)
         ELSE OllamaMessage("user", msg.text, <<>>)
    ELSE OllamaMessage("assistant", msg.text, <<>>)

\* a relay that decides on vision from the message at hand alone
NeedsVisionThisTurn(needs, msg) ==
    msg.role = "user" /\ msg.fileData.type = "image"

\* route.ts:74-80: needsVision after the loop has visited msg
NeedsVisionAfter(needs, msg) ==
    needs \/ (msg.role = "user" /\ msg.fileData.type = "image")

\* route.ts:101
SelectModel(needs) == IF needs THEN VisionModel ELSE MODEL

\* route.ts:67-74: the request body has been read
RequestInit ==
    /\ conv \in Conversations
    /\ rqpc = "walking"
    /\ walked = 0
    /\ ollamaMessages = <<OllamaMessage("system", SYSTEM_PROMPT, <<>>)>>
    /\ needsVision = FALSE
    /\ model = ""

\* route.ts:76-99: one iteration of the loop
RequestWalk ==
    /\ rqpc = "walking"
    /\ walked < Len(conv)
    /\ ollamaMessages' = Append(ollamaMessages, Pushed(conv[walked + 1]))
    /\ needsVision' = NeedsVisionAfter(needsVision, conv[walked + 1])
    /\ walked' = walked + 1
    /\ UNCHANGED <<conv, rqpc, model, relayVars, consumerVars, cleanVars,
                   practiceVars,
                   sessionVars>>

\* route.ts:101: the loop has ended
RequestSelectModel ==
    /\ rqpc = "walking"
    /\ walked = Len(conv)
    /\ model' = SelectModel(needsVision)
    /\ rqpc' = "built"
    /\ UNCHANGED <<conv, walked, ollamaMessages, needsVision, relayVars,
                   consumerVars, cleanVars,
                   practiceVars,
                   sessionVars>>

RequestNext ==
    \/ RequestWalk
    \/ RequestSelectModel

\* the request of an empty conversation has been built
RequestBuilt ==
    /\ conv = <<>>
    /\ rqpc = "built"
    /\ walked = 0
    /\ ollamaMessages = <<OllamaMessage("system", SYSTEM_PROMPT, <<>>)>>
    /\ needsVision = FALSE
    /\ model = SelectModel(FALSE)

\* no request body has been read yet
RequestIdle ==
    /\ conv = <<>>
    /\ rqpc = "idle"
    /\ walked = 0
    /\ ollamaMessages = <<>>
    /\ needsVision = FALSE
    /\ model = ""

(***************************************************************************)
(* cleanLatex applied to a fragment, and to its own result                 *)
(***************************************************************************)
\* the pieces a fragment is made of: bracketed display and inline math
\* delimiters, math bodies, a LaTeX line break, a matrix environment, a
\* command
Pieces ==
    { <<"[", " ", "$", "$">>, <<"$", "$", " ", "]">>,
      <<"[", " ", "$">>, <<"$", " ", "]">>,
      <<"x">>, <<"x", "^", "2">>,
      <<BS, BS>>,
      BeginOpen \o <<"b", "m", "a", "t", "r", "i", "x", "}">>,
      EndOpen \o <<"b", "m", "a", "t", "r", "i", "x", "}">>,
      <<BS, "a">> }

FragmentsOf(n) == { Flatten(ps) : ps \in [1..n -> Pieces] }

CleanInputs == UNION { FragmentsOf(n) : n \in 0..MaxPieces }

\* cleanLatex is about to be called with a fragment
CleanInit ==
    /\ fragment \in CleanInputs
    /\ clpc = "input"
    /\ once = <<>>
    /\ twice = <<>>

\* route.ts:41-63: cleanLatex(fragment)
Clean ==
    /\ clpc = "input"
    /\ once' = cleanLatex(fragment)
    /\ clpc' = "once"
    /\ UNCHANGED <<fragment, twice, relayVars, consumerVars, requestVars,
                   practiceVars,
                   sessionVars>>

\* route.ts:41-63: cleanLatex of the result
CleanAgain ==
    /\ clpc = "once"
    /\ twice' = cleanLatex(once)
    /\ clpc' = "twice"
    /\ UNCHANGED <<fragment, once, relayVars, consumerVars, requestVars,
                   practiceVars,
                   sessionVars>>

CleanNext ==
    \/ Clean
    \/ CleanAgain

\* cleanLatex is not being called
CleanIdle ==
    /\ fragment = <<>>
    /\ clpc = "idle"
    /\ once = <<>>
    /\ twice = <<>>

(***************************************************************************)
(* Practice endpoint: POST of part_003                                     *)
(***************************************************************************)
ProblemMarker == <<"P", "R", "O", "B", "L", "E", "M", ":">>

AnswerMarker == <<"A", "N", "S", "W", "E", "R", ":">>

HintMarker == <<"H", "I", "N", "T", ":">>

CorrectToken == <<"C", "O", "R", "R", "E", "C", "T">>

IncorrectToken == <<"I", "N", "C", "O", "R", "R", "E", "C", "T">>

\* String.prototype.toLowerCase on one character
ToLower(ch) ==
    IF \E i \in 1..Len(UpperCase) : UpperCase[i] = ch
    THEN LowerCase[CHOOSE i \in 1..Len(UpperCase) : UpperCase[i] = ch]
    ELSE ch

ToLowerCase(text) == [i \in 1..Len(text) |-> ToLower(text[i])]

\* the texts that follow a marker or a verdict in a reply of the model
FieldBodies == UNION { [1..n -> {" ", "x"}] : n \in 0..MaxBody }

\* the answer and the hint as the model writes them: nothing, a text, a text
\* after white space and a text before white space
SideBodies == { <<>>, <<"x">>, <<" ", "x">>, <<"x", " ">> }

\* a field of a generated problem as the model writes it, if it writes it
Field(marker, body, present) == IF present THEN marker \o body ELSE <<>>

\* replies to the generate prompt: the three fields in the order asked for,
\* each present or not, the markers in upper or in lower case
GenerateReplies ==
    { Field(IF low THEN ToLowerCase(ProblemMarker) ELSE ProblemMarker, p, hp)
        \o Field(IF low THEN ToLowerCase(AnswerMarker) ELSE AnswerMarker, a, ha)
        \o Field(IF low THEN ToLowerCase(HintMarker) ELSE HintMarker, h, hh) :
          p \in FieldBodies, a \in SideBodies, h \in SideBodies,
          hp \in BOOLEAN, ha \in BOOLEAN, hh \in BOOLEAN, low \in BOOLEAN }

\* replies to the check prompt: a verdict or none, after leading white space
\* or none, then an explanation
CheckReplies ==
    { lead \o verdict \o sep \o b :
          lead \in { <<>>, <<" ">>, <<NL>> },
          verdict \in { CorrectToken, IncorrectToken,
                        <<"C">> \o ToLowerCase(Tail(CorrectToken)), <<>> },
          sep \in { <<>>, <<NL>> },
          b \in FieldBodies }

\* the actions a request body names
PracticeActions == { "generate", "check", "solve" }

\* the model server's possible answers to the action's prompt
PracticeAnswers(action) ==
    { [kind |-> "ok", body |-> c] :
          c \in IF action = "generate" THEN GenerateReplies ELSE CheckReplies }
    \cup { [kind |-> "status", body |-> b] : b \in ErrBodies }
    \cup { [kind |-> "refused", body |-> <<>>],
           [kind |-> "failed", body |-> <<>>] }

\* part_003:93  /PROBLEM:\s*([\s\S]*?)(?=ANSWER:)/i
ProblemPattern ==
    LitI(ProblemMarker) \o Ws \o Lazy(1, TRUE) \o Ahead(LitI(AnswerMarker))

\* part_003:94  /ANSWER:\s*([\s\S]*?)(?=HINT:)/i
AnswerPattern ==
    LitI(AnswerMarker) \o Ws \o Lazy(1, TRUE) \o Ahead(LitI(HintMarker))

\* part_003:95  /HINT:\s*([\s\S]*?)$/i
HintPattern == LitI(HintMarker) \o Ws \o Lazy(1, TRUE) \o End

\* match?.[1]?.trim() || fallback
Extracted(pattern, content, fallback) ==
    LET m == FirstMatch(pattern, content, 1)
    IN  IF m.ok THEN OrElse(Trim(m.g[1]), fallback) ELSE fallback

\* a parser whose answer runs to the end of the reply
ParseGenerateAnswerToEnd(content) ==
    [problem |-> Extracted(ProblemPattern, content, content),
     answer |-> Extracted(LitI(AnswerMarker) \o Ws \o Lazy(1, TRUE) \o End,
                          content, <<>>),
     hint |-> Extracted(HintPattern, content, <<>>)]

\* part_003:92-102
ParseGenerate(content) ==
    [problem |-> Extracted(ProblemPattern, content, content),
     answer |-> Extracted(AnswerPattern, content, <<>>),
     hint |-> Extracted(HintPattern, content, <<>>)]

\* String.prototype.startsWith
StartsWith(text, prefix) == HasAt(text, 1, prefix)

\* part_003:107  content.replace(/^(CORRECT|INCORRECT)\s*/i, "")
StripVerdict(content) ==
    LET c == Match(LitI(CorrectToken) \o Ws, 1, content, 1, << <<>>, <<>> >>)
        i == Match(LitI(IncorrectToken) \o Ws, 1, content, 1, << <<>>, <<>> >>)
    IN  IF c.ok THEN From(content, c.end + 1)
        ELSE IF i.ok THEN From(content, i.end + 1)
        ELSE content

\* part_003:105-110
ParseCheck(content) ==
    [correct |-> StartsWith(ToUpperCase(Trim(content)), CorrectToken),
     explanation |-> Trim(StripVerdict(content))]

\* a dispatch that takes every action for a check
ValidActionAny(action) == TRUE

\* part_003:59-63
ValidAction(action) == action \in { "generate", "check" }

\* part_003:64-67
InvalidActionResponse ==
    [status |-> 400, body |-> [error |-> <<"Invalid action">>]]

\* part_003:97-112
PracticeOk(body) == [status |-> 200, body |-> body]

\* part_003:122-125
PracticeError(message) == [status |-> 500, body |-> [error |-> message]]

\* part_003:119
PracticeCantConnectMessage ==
    <<"Can't connect to Ollama.", " Make sure Ollama is running.">>

(***************************************************************************)
(* Practice page: PracticeMode of part_002                                 *)
(***************************************************************************)
NoProblem == [problem |-> <<"none">>]

NoFeedback == [explanation |-> <<"none">>]

NoStats == [total |-> -1]

\* part_002:50, 72
ZeroStats == [total |-> 0, correct |-> 0, streak |-> 0, bestStreak |-> 0]

\* what the user types into the answer box
Answers == { <<"7">>, <<" ">> }

\* the responses of /api/practice to a generate request (part_003:92-125)
GenerateResponses ==
    { PracticeOk(ParseGenerate(Field(ProblemMarker, <<"x">>, TRUE)
                                 \o Field(AnswerMarker, <<"x">>, TRUE)
                                 \o Field(HintMarker, <<"x">>, TRUE))),
      PracticeError(PracticeCantConnectMessage) }

\* the responses of /api/practice to a check request (part_003:105-125)
CheckResponses ==
    { PracticeOk(ParseCheck(CorrectToken \o <<NL, "x">>)),
      PracticeOk(ParseCheck(IncorrectToken \o <<NL, "x">>)),
      PracticeError(OllamaErrorMessage(<<"o", "o", "m">>)) }

\* the message of the TypeError with which fetch rejects in the browser
FailedToFetch == <<"Failed to fetch">>

\* part_002:76-78 on an empty storage: the page is mounted, nothing asked yet
PageInit ==
    /\ practice = NoProblem
    /\ userAnswer = <<>>
    /\ feedback = NoFeedback
    /\ generating = FALSE
    /\ checking = FALSE
    /\ stats = ZeroStats
    /\ statsStored = NoStats
    /\ calls = {}
    /\ started = 0
    /\ round = 0
    /\ feedbackRound = 0
    /\ graded = [total |-> 0, correct |-> 0]

\* part_002:249, 278: the answer box and its button are rendered
AnswerBoxShown ==
    practice # NoProblem /\ ~generating /\ feedback = NoFeedback

\* part_002:284: the user types an answer
TypeAnswer(text) ==
    /\ AnswerBoxShown
    /\ userAnswer # text
    /\ userAnswer' = text
    /\ UNCHANGED <<practice, feedback, generating, checking, stats,
                   statsStored, calls, started, round, feedbackRound, graded,
                   pAction, pUp, ppc, pSent, pResp, relayVars, consumerVars,
                   requestVars, cleanVars, sessionVars>>

\* part_002:80-92, 228-231, 318-324: the start/next button or the next
\* problem button of the feedback, up to the fetch
GenerateProblem ==
    /\ ~generating
    /\ started < MaxCalls
    /\ generating' = TRUE
    /\ practice' = NoProblem
    /\ feedback' = NoFeedback
    /\ feedbackRound' = 0
    /\ userAnswer' = <<>>
    /\ started' = started + 1
    /\ round' = started + 1
    /\ calls' = calls \cup { [id |-> started + 1, kind |-> "generate",
                              round |-> started + 1, stats |-> stats] }
    /\ UNCHANGED <<checking, stats, statsStored, graded,
                   pAction, pUp, ppc, pSent, pResp, relayVars, consumerVars,
                   requestVars, cleanVars, sessionVars>>

\* part_002:98-102
ErrorProblem(message) ==
    [problem |-> <<"Error: ">> \o message, answer |-> <<>>, hint |-> <<>>]

\* part_002:93-105: the generate request settles with a response
GenerateSettled(call, resp) ==
    /\ call \in calls
    /\ call.kind = "generate"
    /\ calls' = calls \ {call}
    /\ practice' = IF resp.status = 200
                   THEN resp.body
                   ELSE ErrorProblem(resp.body.error)
    /\ generating' = FALSE
    /\ UNCHANGED <<userAnswer, feedback, checking, stats, statsStored,
                   started, round, feedbackRound, graded,
                   pAction, pUp, ppc, pSent, pResp, relayVars, consumerVars,
                   requestVars, cleanVars, sessionVars>>

\* part_002:88, 97-105: the fetch of the generate request rejects
GenerateRejected(call) ==
    /\ call \in calls
    /\ call.kind = "generate"
    /\ calls' = calls \ {call}
    /\ practice' = ErrorProblem(FailedToFetch)
    /\ generating' = FALSE
    /\ UNCHANGED <<userAnswer, feedback, checking, stats, statsStored,
                   started, round, feedbackRound, graded,
                   pAction, pUp, ppc, pSent, pResp, relayVars, consumerVars,
                   requestVars, cleanVars, sessionVars>>

\* part_002:108-122, 285-294: Enter in the answer box, or its button, which
\* is disabled while a check is pending: checkAnswer up to the fetch.  The
\* call works on the `stats` of the render it was made in
CheckAnswer(byButton) ==
    /\ AnswerBoxShown
    /\ byButton => ~checking
    /\ Trim(userAnswer) # <<>>
    /\ started < MaxCalls
    /\ checking' = TRUE
    /\ started' = started + 1
    /\ calls' = calls \cup { [id |-> started + 1, kind |-> "check",
                              round |-> round, stats |-> stats] }
    /\ UNCHANGED <<practice, userAnswer, feedback, generating, stats,
                   statsStored, round, feedbackRound, graded,
                   pAction, pUp, ppc, pSent, pResp, relayVars, consumerVars,
                   requestVars, cleanVars, sessionVars>>

\* part_002:128-138
NewStats(old, correct) ==
    IF correct
    THEN [total |-> old.total + 1,
          correct |-> old.correct + 1,
          streak |-> old.streak + 1,
          bestStreak |-> IF old.streak + 1 > old.bestStreak
                         THEN old.streak + 1
                         ELSE old.bestStreak]
    ELSE [total |-> old.total + 1,
          correct |-> old.correct,
          streak |-> 0,
          bestStreak |-> old.bestStreak]

\* part_002:123-140, 146-148: the check request settles with a success
\* response: the answer is graded
CheckGraded(call, resp) ==
    /\ call \in calls
    /\ call.kind = "check"
    /\ resp.status = 200
    /\ calls' = calls \ {call}
    /\ feedback' = resp.body
    /\ feedbackRound' = call.round
    /\ stats' = NewStats(call.stats, resp.body.correct)
    /\ statsStored' = NewStats(call.stats, resp.body.correct)
    /\ checking' = FALSE
    /\ graded' = [total |-> graded.total + 1,
                  correct |-> graded.correct
                                + IF resp.body.correct THEN 1 ELSE 0]
    /\ UNCHANGED <<practice, userAnswer, generating, started, round,
                   pAction, pUp, ppc, pSent, pResp, relayVars, consumerVars,
                   requestVars, cleanVars, sessionVars>>

\* part_002:142-145
ErrorFeedback(message) ==
    [correct |-> FALSE,
     explanation |-> <<"Error checking answer: ">> \o message]

\* a page that counts a failed check as an incorrect answer
CheckFailedCounted(call, resp, rejects) ==
    /\ call \in calls
    /\ call.kind = "check"
    /\ resp.status # 200
    /\ calls' = calls \ {call}
    /\ feedback' = ErrorFeedback(IF rejects THEN FailedToFetch
                                 ELSE resp.body.error)
    /\ feedbackRound' = call.round
    /\ checking' = FALSE
    /\ stats' = NewStats(call.stats, FALSE)
    /\ statsStored' = NewStats(call.stats, FALSE)
    /\ UNCHANGED <<practice, userAnswer, generating,
                   started, round, graded,
                   pAction, pUp, ppc, pSent, pResp, relayVars, consumerVars,
                   requestVars, cleanVars, sessionVars>>

\* part_002:113, 123-124, 141-148: the check request fails: the response is
\* no success, or the fetch rejects
CheckFailed(call, resp, rejects) ==
    /\ call \in calls
    /\ call.kind = "check"
    /\ resp.status # 200
    /\ calls' = calls \ {call}
    /\ feedback' = ErrorFeedback(IF rejects THEN FailedToFetch
                                 ELSE resp.body.error)
    /\ feedbackRound' = call.round
    /\ checking' = FALSE
    /\ UNCHANGED <<practice, userAnswer, generating, stats, statsStored,
                   started, round, graded,
                   pAction, pUp, ppc, pSent, pResp, relayVars, consumerVars,
                   requestVars, cleanVars, sessionVars>>

PageNext ==
    \/ \E text \in Answers : TypeAnswer(text)
    \/ GenerateProblem
    \/ \E call \in calls, resp \in GenerateResponses :
           GenerateSettled(call, resp)
    \/ \E call \in calls : GenerateRejected(call)
    \/ \E byButton \in BOOLEAN : CheckAnswer(byButton)
    \/ \E call \in calls, resp \in CheckResponses : CheckGraded(call, resp)
    \/ \E call \in calls, resp \in CheckResponses, rejects \in BOOLEAN :
           CheckFailed(call, resp, rejects)

\* the model server's answers by kind, one reply for each
PracticeAnswerKinds(action) ==
    { [kind |-> "ok",
       body |-> IF action = "generate"
                THEN Field(ProblemMarker, <<"x">>, TRUE)
                         \o Field(AnswerMarker, <<"x">>, TRUE)
                         \o Field(HintMarker, <<"x">>, TRUE)
                ELSE CorrectToken \o <<NL, "x">>] }
    \cup { [kind |-> "status", body |-> <<"o", "o", "m">>],
           [kind |-> "refused", body |-> <<>>],
           [kind |-> "failed", body |-> <<>>] }

\* a request with one of `actions` has arrived at POST, the model server is
\* going to answer in one of the four ways
PracticeCalled(actions) ==
    /\ pAction \in actions
    /\ pUp \in PracticeAnswerKinds(pAction)
    /\ ppc = "start"
    /\ pSent = <<>>
    /\ pResp = NoResponse
    /\ PageInit

\* a request with an action has arrived at POST
PracticeInit ==
    /\ pAction \in PracticeActions
    /\ pUp \in PracticeAnswers(pAction)
    /\ ppc = "start"
    /\ pSent = <<>>
    /\ pResp = NoResponse
    /\ PageInit

\* part_003:54-82: the action is known: its prompt is sent to the model server
PracticeFetch ==
    /\ ppc = "start"
    /\ ValidAction(pAction)
    /\ pSent' = Append(pSent, [model |-> MODEL, action |-> pAction])
    /\ ppc' = "fetching"
    /\ UNCHANGED <<pageVars, pAction, pUp, pResp, relayVars, consumerVars, requestVars,
                   cleanVars,
                   sessionVars>>

\* part_003:63-68: any other action
PracticeInvalid ==
    /\ ppc = "start"
    /\ ~ValidAction(pAction)
    /\ pResp' = InvalidActionResponse
    /\ ppc' = "done"
    /\ UNCHANGED <<pageVars, pAction, pUp, pSent, relayVars, consumerVars, requestVars,
                   cleanVars,
                   sessionVars>>

\* part_003:84-113: the model server answered with a success status
PracticeRespond ==
    /\ ppc = "fetching"
    /\ pUp.kind = "ok"
    /\ pResp' = PracticeOk(IF pAction = "generate"
                           THEN ParseGenerate(pUp.body)
                           ELSE ParseCheck(pUp.body))
    /\ ppc' = "done"
    /\ UNCHANGED <<pageVars, pAction, pUp, pSent, relayVars, consumerVars, requestVars,
                   cleanVars,
                   sessionVars>>

\* part_003:84-87, 114-125: a non-success status
PracticeNotOk ==
    /\ ppc = "fetching"
    /\ pUp.kind = "status"
    /\ pResp' = PracticeError(OllamaErrorMessage(pUp.body))
    /\ ppc' = "done"
    /\ UNCHANGED <<pageVars, pAction, pUp, pSent, relayVars, consumerVars, requestVars,
                   cleanVars,
                   sessionVars>>

\* part_003:70, 114-125: fetch rejects, cause.code ECONNREFUSED
PracticeRefused ==
    /\ ppc = "fetching"
    /\ pUp.kind = "refused"
    /\ pResp' = PracticeError(PracticeCantConnectMessage)
    /\ ppc' = "done"
    /\ UNCHANGED <<pageVars, pAction, pUp, pSent, relayVars, consumerVars, requestVars,
                   cleanVars,
                   sessionVars>>

\* part_003:70, 114-125: fetch rejects for another cause
PracticeFailed ==
    /\ ppc = "fetching"
    /\ pUp.kind = "failed"
    /\ pResp' = PracticeError(FetchFailedMessage)
    /\ ppc' = "done"
    /\ UNCHANGED <<pageVars, pAction, pUp, pSent, relayVars, consumerVars, requestVars,
                   cleanVars,
                   sessionVars>>

PracticeNext ==
    \/ PracticeFetch
    \/ PracticeInvalid
    \/ PracticeRespond
    \/ PracticeNotOk
    \/ PracticeRefused
    \/ PracticeFailed

\* no request has reached the practice endpoint
PracticeIdle ==
    /\ pAction = "none"
    /\ pUp = [kind |-> "none", body |-> <<>>]
    /\ ppc = "idle"
    /\ pSent = <<>>
    /\ pResp = NoResponse
    /\ PageInit

(***************************************************************************)
(* Specifications                                                          *)
(***************************************************************************)
\* the relay serving one request, the model server's answer read in chunks
Init ==
    /\ RelayInit /\ ConsumerAbsent /\ RequestBuilt /\ CleanIdle /\ PracticeIdle
    /\ SessionAbsent

Next == RelayNext

Spec == Init /\ [][Next]_vars

\* the consumer sending to the relay, the relay's body read in chunks
InitConsumer ==
    /\ RelayIdle /\ ConsumerInit /\ RequestIdle /\ CleanIdle /\ PracticeIdle
    /\ SessionInit(<<>>)

NextConsumer == ConsumerNext

SpecConsumer == InitConsumer /\ [][NextConsumer]_vars

\* the relay building the model request of one conversation
InitRequest ==
    /\ RelayIdle /\ ConsumerAbsent /\ RequestInit /\ CleanIdle /\ PracticeIdle
    /\ SessionAbsent

NextRequest == RequestNext

SpecRequest == InitRequest /\ [][NextRequest]_vars

\* cleanLatex called with one fragment, then with its result
InitClean ==
    /\ RelayIdle /\ ConsumerAbsent /\ RequestIdle /\ CleanInit /\ PracticeIdle
    /\ SessionAbsent

NextClean == CleanNext

SpecClean == InitClean /\ [][NextClean]_vars

\* the bodies the relay streams to the consumer of a session
SessionStreams ==
    { EncodeEvent(TokenEvent(<<"x">>)) \o EncodeEvent(TokenEvent(<<"y">>)),
      EncodeEvent(ErrorEvent(StreamInterrupted)) }

\* a session of the chat page: the user types, attaches, sends and manages
\* conversations while the relay answers
InitSession ==
    /\ RelayIdle /\ ConsumerInit /\ RequestIdle /\ CleanIdle /\ PracticeIdle
    /\ SessionInit(<<OldConversation>>)

NextSession ==
    \/ Completed < MaxSends /\ SendMessage
    \/ SendRejected
    \/ \E text \in Texts : TypeInput(text)
    \/ \E file \in { ImageFile } : AttachFile(file)
    \/ NewChat
    \/ \E i \in 1..Len(conversations) : LoadConversation(i)
    \/ \E i \in 1..Len(conversations) : DeleteConversation(i)
    \/ RelayFetchOk
    \/ RelayFetchNotOk
    \/ RelayFetchRefused
    \/ RelayFetchFailed
    \/ ConsumerFetchNotOk
    \/ \E s \in SessionStreams : ConsumerFetchOk(s)
    \/ ConsumerFetchReject
    \/ \E n \in 1..Len(sse) : ConsumerRead(n)
    \/ ConsumerReadDone
    \/ ConsumerReadFail

SpecSession == InitSession /\ [][NextSession]_vars

\* the two endpoints: the consumer sending to the chat relay, which reads
\* the model server's answer to its end, and the practice endpoint serving
\* one request
\* the answers of the model server under which the read loops are run to
\* their end: bodies of two lines, of one line without its newline and of no
\* line, and the three failures of the fetch
LiveAnswers ==
    { [kind |-> "ok", body |-> b] :
        b \in { JoinLines(<<<<"{", "x", "}">>, <<"{", "y", "D", "}">>>>, TRUE),
                JoinLines(<<<<"{", "x", "}">>>>, FALSE),
                <<>> } }
    \cup { [kind |-> "status", body |-> <<"o", "o", "m">>],
           [kind |-> "refused", body |-> <<>>],
           [kind |-> "failed", body |-> <<>>] }

\* Chat.tsx:339-388: the first send of a session with nothing stored has
\* reached the fetch
ConsumerSent ==
    LET sent == <<SentMessage(1, <<"q">>, NoFile)>>
    IN  /\ cpc = "fetching"
        /\ messages = sent
        /\ loading = TRUE
        /\ streaming = TRUE
        /\ abortCtl = TRUE
        /\ ollamaError = FALSE
        /\ fullText = <<>>
        /\ cbuffer = <<>>
        /\ assistantId = 2
        /\ nextId = 3
        /\ sse = <<>>
        /\ cPos = 0
        /\ sends = 1
        /\ resolved = FALSE
        /\ processed = <<>>
        /\ updates = <<>>
        /\ errSeen = <<>>
        /\ unread = FALSE
        /\ outcome = "none"
        /\ input = <<>>
        /\ attachedFile = NoFile
        /\ conversations = <<Conversation(1, sent)>>
        /\ activeId = 1
        /\ stored = <<Conversation(1, sent)>>
        /\ requests = 1
        /\ upSent = 0
        /\ rejected = "none"
        /\ ops = 0
        /\ stayed = TRUE

\* Chat.tsx:409-410: reader.read() reports the end of the stream, which it
\* does once the relay has closed it (route.ts:168)
ConsumerReadClosed == outState = "closed" /\ ConsumerReadDone

\* route.ts:136-169: the read loop of the relay
RelayLoop ==
    \/ \E n \in 1..Len(upBody) : RelayRead(n)
    \/ RelayReadDone
    \/ RelayReadError

\* Chat.tsx:408-437: the read loop of the consumer while the connection holds
ConsumerLoop ==
    \/ \E n \in 1..Len(sse) : ConsumerRead(n)
    \/ ConsumerReadClosed

InitLive ==
    /\ RelayInit /\ upResp \in LiveAnswers
    /\ ConsumerSent /\ RequestIdle /\ CleanIdle /\ PracticeIdle

NextLive ==
    \/ RelayFetchOk
    \/ RelayFetchNotOk
    \/ RelayFetchRefused
    \/ RelayFetchFailed
    \/ RelayLoop
    \/ ConsumerFetchNotOk
    \/ \E s \in SessionStreams : ConsumerFetchOk(s)
    \/ ConsumerFetchReject
    \/ ConsumerLoop
    \/ ConsumerReadFail

\* a step of RelayLoop is possible: a pending read of the upstream body can
\* always settle, at least by failing
RelayLoopEnabled == rpc = "reading"

\* a step of ConsumerLoop is possible: bytes are left to read, or the relay
\* has closed the stream
ConsumerLoopEnabled ==
    /\ cpc = "streaming"
    /\ \/ cPos < Len(sse)
       \/ cPos = Len(sse) /\ outState = "closed"

\* the read loops are scheduled fairly: a pending read of the upstream body
\* returns bytes, its end or a failure, and a pending read of the consumer
\* returns the bytes that were sent or the end of a closed stream.  These are
\* WF_vars(RelayLoop) and WF_vars(ConsumerLoop), written out with the
\* enabling conditions of the two loops
SpecLive ==
    /\ InitLive /\ [][NextLive]_vars
    /\ ([]<>(~RelayLoopEnabled) \/ []<><<RelayLoop>>_vars)
    /\ ([]<>(~ConsumerLoopEnabled) \/ []<><<ConsumerLoop>>_vars)

\* the practice page, its requests answered by the practice endpoint
InitPage ==
    /\ RelayIdle /\ ConsumerAbsent /\ RequestIdle /\ CleanIdle /\ PracticeIdle
    /\ SessionAbsent

NextPage == PageNext

SpecPage == InitPage /\ [][NextPage]_vars

InitSystem ==
    /\ RelayIdle /\ ConsumerInit /\ RequestIdle /\ CleanIdle
    /\ PracticeCalled(PracticeActions)
    /\ SessionInit(<<>>)

NextSystem ==
    \/ sends < MaxSends /\ SendMessage
    \/ RelayFetchOk
    \/ RelayFetchNotOk
    \/ RelayFetchRefused
    \/ RelayFetchFailed
    \/ RelayReadDone
    \/ RelayReadError
    \/ ConsumerFetchNotOk
    \/ \E s \in SessionStreams : ConsumerFetchOk(s)
    \/ ConsumerFetchReject
    \/ \E n \in 1..Len(sse) : ConsumerRead(n)
    \/ ConsumerReadDone
    \/ ConsumerReadFail
    \/ PracticeNext

SpecSystem == InitSystem /\ [][NextSystem]_vars

\* the practice endpoint serving one request
InitPractice ==
    /\ RelayIdle /\ ConsumerAbsent /\ RequestIdle /\ CleanIdle /\ PracticeInit
    /\ SessionAbsent

NextPractice == PracticeNext

SpecPractice == InitPractice /\ [][NextPractice]_vars

(***************************************************************************)
(* Vocabulary of the properties                                            *)
(***************************************************************************)
\* the bytes the relay has read so far
Delivered == SubSeq(upBody, 1, upPos)

\* the newline-terminated lines of a text
CompleteLines(text) == Front(Split(text, <<NL>>))

\* all lines of a text, a last one without newline included
AllLines(text) == Split(text, <<NL>>)

IsToken(e) == e.type = "token"

IsError(e) == e.type = "error"

IsRelayed(e) == e.type # "error"

\* the values of the token events among es, in order
TokenTexts(es) ==
    LET toks == SelectSeq(es, IsToken)
    IN  [i \in 1..Len(toks) |-> toks[i].text]

\* the client is attached to the outbound stream, or was until its close
ClientAttached == outState \in {"open", "closed"}

\* the assistant message of the current send is in the transcript with text t
AssistantShows(t) ==
    \E i \in 1..Len(messages) :
        /\ messages[i].id = assistantId
        /\ messages[i].role = "assistant"
        /\ messages[i].text = t

\* the text of the assistant message of the current send contains t
AssistantContains(t) ==
    \E i \in 1..Len(messages) :
        /\ messages[i].id = assistantId
        /\ messages[i].role = "assistant"
        /\ Includes(messages[i].text, t)

(***************************************************************************)
(* C1  (Spec)  When the relay has read the whole upstream body and closed  *)
(* the outbound stream for an attached client, the token events it emitted *)
(* are, in order, cleanLatex(c) for every content fragment c carried by    *)
(* the lines of the body, however the body ends: none dropped, duplicated  *)
(* or reordered.  The relay never parses a last line that no newline       *)
(* follows, so this fails.                                                 *)
(***************************************************************************)
C1_EveryFragmentRelayed ==
    (rpc = "closed" /\ outState = "closed" /\ ~readFailed)
        => TokenTexts(out) = CleanAll(Fragments(AllLines(upBody)))

(***************************************************************************)
(* C2  (Spec)  Chunk-boundary invariance: whatever the reads the delivered *)
(* bytes arrived in, the relay has emitted the events, and holds the       *)
(* buffer, that one read of all the delivered bytes gives.                 *)
(***************************************************************************)
C2_ChunkInvariance ==
    ClientAttached
        => /\ SelectSeq(out, IsRelayed) = ReadStep(<<>>, Delivered, TRUE).events
           /\ buffer = ReadStep(<<>>, Delivered, TRUE).buffer

\* a line that arrived split over two reads has had its fragment emitted
C2_Witness ==
    /\ outState = "open"
    /\ CarriesFragment(rejoined)
    /\ \E i \in 1..Len(out) :
          out[i] = TokenEvent(cleanLatex(JsonParse(rejoined).content))

(***************************************************************************)
(* C3  (Spec)  A complete line that fails to parse adds no event and does  *)
(* not stop the relay: the events emitted are those of the complete lines  *)
(* that parse, as if the malformed lines had not been sent.                *)
(***************************************************************************)
C3_MalformedSkipped ==
    ClientAttached
        => LET valid == SelectSeq(CompleteLines(Delivered), IsValidLine)
           IN  SelectSeq(out, IsRelayed)
                   = Flatten([i \in 1..Len(valid) |-> LineEvents(valid[i], TRUE)])

\* a malformed complete line was read, and the fragment of a later line was
\* emitted
C3_Witness ==
    /\ outState = "open"
    /\ LET lines == CompleteLines(Delivered)
       IN  \E i, j \in 1..Len(lines) :
              /\ i < j
              /\ IsMalformedLine(lines[i])
              /\ CarriesFragment(lines[j])
              /\ out # <<>>
              /\ Last(out) = TokenEvent(cleanLatex(JsonParse(lines[j]).content))

(***************************************************************************)
(* C5  (Spec)  When a read of the upstream body fails while the client is  *)
(* attached, the relay emits one error event "Stream interrupted" as the   *)
(* last event and closes the outbound stream, and reads no more; without a *)
(* failed read there is no error event.  (With the client gone, enqueue    *)
(* throws and there is nothing to emit to.)                                *)
(***************************************************************************)
C5_StreamInterrupted ==
    /\ (readFailed /\ ClientAttached)
          => /\ rpc = "closed"
             /\ outState = "closed"
             /\ out # <<>>
             /\ Last(out) = ErrorEvent(StreamInterrupted)
             /\ Len(SelectSeq(out, IsError)) = 1
    /\ ~readFailed => SelectSeq(out, IsError) = <<>>

\* the read failed mid-stream, after a token was emitted and before the end
\* of the body
C5_Witness ==
    /\ readFailed
    /\ outState = "closed"
    /\ upPos < Len(upBody)
    /\ Len(out) >= 2
    /\ IsToken(out[1])

(***************************************************************************)
(* C9  (Spec)  After the client has left the outbound stream the relay     *)
(* issues no further upstream read.  The relay never learns of the         *)
(* disconnect, so this fails.                                              *)
(***************************************************************************)
C9_NoReadAfterDisconnect == lateReads = 0

(***************************************************************************)
(* C10  (Spec)  No token event is emitted after the end-of-stream          *)
(* sentinel.  The relay goes on with the lines after a completion line, so *)
(* this fails.                                                             *)
(***************************************************************************)
C10_NoTokenAfterDone ==
    \A i, j \in 1..Len(out) :
        (i < j /\ out[i].type = "done") => ~IsToken(out[j])

(***************************************************************************)
(* C4  (SpecConsumer)  When the model server answers with a non-success    *)
(* status, the relay emits no event and answers 500 with an error text     *)
(* containing the upstream body, and the consumer, once it has that        *)
(* response, has ended with a last assistant message containing the body.  *)
(***************************************************************************)
C4_UpstreamStatusSurfaced ==
    upResp.kind = "status"
        => /\ out = <<>>
           /\ outState = "none"
           /\ rpc = "failed"
                 => /\ httpResp.status = 500
                    /\ Includes(httpResp.error, upResp.body)
           /\ resolved
                 => /\ cpc = "idle"
                    /\ outcome = "error"
                    /\ Last(messages).role = "assistant"
                    /\ Includes(Last(messages).text, upResp.body)

C4_Witness ==
    /\ upResp = [kind |-> "status", body |-> <<"o", "o", "m">>]
    /\ resolved
    /\ outcome = "error"
    /\ AssistantContains(<<"o", "o", "m">>)

(***************************************************************************)
(* C6  (SpecConsumer)  When the consumer has applied N >= 1 tokens and     *)
(* then meets the error event "Stream interrupted", the final assistant    *)
(* message still begins with the text of those tokens and carries the      *)
(* error after it.  The catch overwrites the text, so this fails.          *)
(***************************************************************************)
C6_PartialTextKept ==
    (/\ outcome = "error"
     /\ processed # <<>>
     /\ errSeen # <<>>
     /\ Last(errSeen) = StreamInterrupted)
        => \E i \in 1..Len(messages) :
              /\ messages[i].id = assistantId
              /\ HasAt(messages[i].text, 1, Flatten(processed))
              /\ Includes(messages[i].text, StreamInterrupted)

(***************************************************************************)
(* C7  (SpecConsumer)  Once a frame with an error field has been met,      *)
(* whatever its message, the send has ended in error with that message in  *)
(* the assistant message.  Only "Stream interrupted" leaves the frame      *)
(* loop, so this fails.                                                    *)
(***************************************************************************)
C7_AnyErrorAborts ==
    errSeen # <<>>
        => /\ cpc = "idle"
           /\ outcome = "error"
           /\ AssistantContains(errSeen[1])

(***************************************************************************)
(* C8  (SpecConsumer)  When the request is aborted after N token frames    *)
(* were applied, the transcript ends with the placeholder holding exactly  *)
(* the text of those N tokens (or with the user message, when no response  *)
(* had arrived), the abort writes nothing to the transcript and does not   *)
(* touch the setup-required flag, and nothing changes the transcript       *)
(* afterwards.                                                             *)
(***************************************************************************)
C8_AbortKeepsTranscript ==
    /\ [](outcome = "aborted"
            => /\ cpc = "idle"
               /\ IF resolved
                  THEN Last(messages)
                          = AssistantMessage(assistantId, Flatten(processed))
                  ELSE Last(messages).role = "user")
    /\ [][outcome' = "aborted"
            => /\ messages' = messages
               /\ ollamaError' = ollamaError]_vars

\* aborted after one token, with frames still to arrive
C8_Witness ==
    /\ outcome = "aborted"
    /\ Len(processed) >= 1
    /\ unread
    /\ AssistantShows(Flatten(processed))

\* the line signals completion: it parses and its done field is set
SignalsCompletion(line) == JsonParse(line).ok /\ JsonParse(line).done

\* how many of the events es are the end-of-stream sentinel
DoneCount(es) == Cardinality({ i \in 1..Len(es) : es[i] = DoneEvent })

\* the read loop has ended because the upstream body ended
ClosedNormally == rpc = "closed" /\ ~readFailed

(***************************************************************************)
(* C11  (Spec)  Every outbound stream the relay has closed for an attached *)
(* client and that does not end with an error event ends with the [DONE]   *)
(* sentinel, and holds the sentinel exactly once.  The relay emits the     *)
(* sentinel only for a line whose done field is set, once per such line,   *)
(* and goes on reading after it, so this fails.                            *)
(***************************************************************************)
C11_TerminatedByDone ==
    (/\ rpc = "closed"
     /\ outState = "closed"
     /\ (out = <<>> \/ ~IsError(Last(out))))
        => /\ out # <<>>
           /\ Last(out) = DoneEvent
           /\ DoneCount(out) = 1

(***************************************************************************)
(* C12  (Spec)  When the upstream body has ended normally and none of its  *)
(* lines signals completion, the outbound stream of an attached client is  *)
(* closed and holds no error event; the end of the body itself enqueues    *)
(* nothing.                                                                *)
(***************************************************************************)
C12_CleanCloseWithoutSignal ==
    (/\ ClosedNormally
     /\ ClientAttached
     /\ \A i \in 1..Len(AllLines(upBody)) :
            ~SignalsCompletion(AllLines(upBody)[i]))
        => /\ outState = "closed"
           /\ \A i \in 1..Len(out) : ~IsError(out[i])
           /\ DoneCount(out) = 0

\* a body of fragments only has been relayed and the stream closed
C12_Witness ==
    /\ ClosedNormally
    /\ outState = "closed"
    /\ upBody # <<>>
    /\ \A i \in 1..Len(AllLines(upBody)) :
           ~SignalsCompletion(AllLines(upBody)[i])
    /\ \E i \in 1..Len(out) : IsToken(out[i])

(***************************************************************************)
(* C13  (SpecConsumer)  While the consumer is streaming, the placeholder   *)
(* shows the concatenation, in arrival order, of the token values          *)
(* processed so far; every token has made its own update of the            *)
(* placeholder, and the k-th update set it to the concatenation of the     *)
(* first k tokens, so each update extends the one before by its token.     *)
(***************************************************************************)
C13_PlaceholderIsConcatenation ==
    cpc = "streaming"
        => /\ AssistantShows(Flatten(processed))
           /\ Len(updates) = Len(processed)
           /\ \A k \in 1..Len(updates) :
                  updates[k] = Flatten(SubSeq(processed, 1, k))

\* two tokens have been processed and the stream is still being read
C13_Witness ==
    /\ cpc = "streaming"
    /\ Len(processed) = 2
    /\ updates[2] = updates[1] \o processed[2]
    /\ AssistantShows(updates[2])

\* the messages of the transcript that carry the id of the current send's reply
AssistantEntries ==
    { i \in 1..Len(messages) : messages[i].id = assistantId }

\* the current send got a response that is not a success and has ended
NotOkEnded == outcome = "error" /\ resolved /\ httpResp.status = 500

(***************************************************************************)
(* C14  (SpecConsumer)  The empty placeholder enters the transcript in the *)
(* step in which the consumer takes a success response, as the last        *)
(* message and before any frame has been processed, and in no other step;  *)
(* an empty reply message is in the transcript only after a success        *)
(* response.  When the response is not a success the send has ended        *)
(* with the transcript holding one reply message, the diagnostic built     *)
(* from the error of the response body, and neither a placeholder nor a    *)
(* processed token.                                                        *)
(***************************************************************************)
C14_PlaceholderOnSuccessOnly ==
    /\ [](AssistantShows(<<>>) => resolved /\ httpResp.status = 200)
    /\ [](NotOkEnded
            => /\ cpc = "idle"
               /\ Cardinality(AssistantEntries) = 1
               /\ Last(messages)
                     = AssistantMessage(assistantId, ErrorText(httpResp.error))
               /\ processed = <<>>
               /\ updates = <<>>)
    /\ [][(cpc = "fetching" /\ cpc' = "streaming")
            => /\ httpResp.status = 200
               /\ messages' = Append(messages, AssistantMessage(assistantId, <<>>))
               /\ processed' = <<>>]_vars
    /\ [][(AssistantEntries = {} /\ AssistantEntries' # {})
            => \/ cpc' = "streaming"
               \/ outcome' = "error" /\ ~AssistantShows(<<>>)']_vars

\* the send was answered with status 500 and the diagnostic of its body shown
C14_Witness ==
    /\ NotOkEnded
    /\ AssistantShows(ErrorText(OllamaErrorMessage(<<"o", "o", "m">>)))

\* the turn carries an image attachment on a user message
IsImageTurn(msg) == msg.role = "user" /\ msg.fileData.type = "image"

(***************************************************************************)
(* C15  (SpecRequest)  When the request is built, the model is the vision  *)
(* model if and only if some user message of the conversation, at any      *)
(* position, carries an image attachment, and the default model otherwise; *)
(* the model is chosen in one step, after the whole conversation has been  *)
(* visited.                                                                *)
(***************************************************************************)
C15_VisionIffImageAnywhere ==
    /\ [](rqpc = "built"
            => model = IF \E i \in 1..Len(conv) : IsImageTurn(conv[i])
                       THEN VisionModel
                       ELSE MODEL)
    /\ [][model' # model => walked = Len(conv) /\ rqpc' = "built"]_vars

\* the image is on the first of several user messages, not on the last
C15_Witness ==
    /\ rqpc = "built"
    /\ Len(conv) >= 2
    /\ IsImageTurn(conv[1])
    /\ ~IsImageTurn(conv[Len(conv)])
    /\ model = VisionModel

(***************************************************************************)
(* C16  (SpecRequest)  When the request is built, its message list is the  *)
(* system instruction followed by one entry per message of the             *)
(* conversation, in the same order: the entry of a user message has role   *)
(* user, and its content is the text itself when there is no attachment;   *)
(* the entry of an assistant message has role assistant and the text       *)
(* itself.                                                                 *)
(***************************************************************************)
C16_OneEntryPerMessage ==
    rqpc = "built"
        => /\ Len(ollamaMessages) = Len(conv) + 1
           /\ ollamaMessages[1] = OllamaMessage("system", SYSTEM_PROMPT, <<>>)
           /\ \A i \in 1..Len(conv) :
                  /\ ollamaMessages[i + 1].role = conv[i].role
                  /\ (conv[i].role = "user" /\ conv[i].fileData = NoFile)
                        => /\ ollamaMessages[i + 1].content = conv[i].text
                           /\ ollamaMessages[i + 1].images = <<>>
                  /\ conv[i].role = "assistant"
                        => /\ ollamaMessages[i + 1].content = conv[i].text
                           /\ ollamaMessages[i + 1].images = <<>>

\* a conversation of a user message with empty text and no attachment, an
\* assistant message and a user message with text
C16_Witness ==
    /\ rqpc = "built"
    /\ Len(conv) = 3
    /\ conv[1] = [role |-> "user", text |-> <<>>, fileData |-> NoFile]
    /\ conv[2].role = "assistant"
    /\ conv[3] = [role |-> "user", text |-> <<"q">>, fileData |-> NoFile]
    /\ ollamaMessages[4].content = <<"q">>

(***************************************************************************)
(* C17  (SpecConsumer)  When the first send has ended in an error, the     *)
(* setup-required flag is set if and only if the relay's connection to the *)
(* model server was refused: it is set after a refusal, and it is not set  *)
(* after a non-success status of the model server, after a mid-stream      *)
(* interruption or after any other failure.  The consumer sets the flag    *)
(* for every message that contains "Ollama", which the relay's message     *)
(* for a non-success status does, so this fails.                           *)
(***************************************************************************)
C17_FlagOnlyOnRefusal ==
    (sends = 1 /\ outcome = "error")
        => (ollamaError <=> (resolved /\ upResp.kind = "refused"))

\* the math of the bracketed fragments
MathBodies == { <<"x">>, <<"x", "^", "2">> }

\* the fragment holds no square bracket
BracketFree(text) == \A i \in 1..Len(text) : text[i] \notin {"[", "]"}

(***************************************************************************)
(* C18  (SpecClean)  cleanLatex turns the fragment `[ $$b$$ ]` into        *)
(* `$$b$$` and the fragment `[ $b$ ]` into `$b$`, for every math body b.   *)
(* The replacement strings of the two rules do not refer to the captured   *)
(* body, so this fails.                                                    *)
(***************************************************************************)
C18_BracketsRemovedMathKept ==
    clpc = "once"
        => \A b \in MathBodies :
               /\ fragment = <<"[", " ", "$", "$">> \o b \o <<"$", "$", " ", "]">>
                     => once = <<"$", "$">> \o b \o <<"$", "$">>
               /\ fragment = <<"[", " ", "$">> \o b \o <<"$", " ", "]">>
                     => once = <<"$">> \o b \o <<"$">>

(***************************************************************************)
(* C19  (SpecClean)  cleanLatex returns every fragment that holds no       *)
(* square bracket as it is, fragments with backslash sequences and matrix  *)
(* environments included.  The matrix rules and the double-backslash rule  *)
(* need no bracket to match, so this fails.                                *)
(***************************************************************************)
C19_BracketFreeUnchanged ==
    (clpc = "once" /\ BracketFree(fragment)) => once = fragment

(***************************************************************************)
(* C20  (SpecClean)  cleanLatex is idempotent: applied to its own result   *)
(* it returns that result.  The result of a matrix rule or of the          *)
(* double-backslash rule can match the same rule again, so this fails.     *)
(***************************************************************************)
C20_Idempotent == clpc = "twice" => twice = once

\* the marker as the reply writes it
Cased(marker, low) == IF low THEN ToLowerCase(marker) ELSE marker

\* the reply that holds the fields marked present, in the order asked for
ReplyOf(p, hp, a, ha, h, hh, low) ==
    Field(Cased(ProblemMarker, low), p, hp)
        \o Field(Cased(AnswerMarker, low), a, ha)
        \o Field(Cased(HintMarker, low), h, hh)

\* the practice endpoint has answered a generate request from a model reply
Generated == ppc = "done" /\ pAction = "generate" /\ pUp.kind = "ok"

\* the practice endpoint has answered a check request from a model reply
Checked == ppc = "done" /\ pAction = "check" /\ pUp.kind = "ok"

C22_FieldsIndependent ==
    Generated
        => \A p \in FieldBodies, a \in SideBodies, h \in SideBodies,
              hp \in BOOLEAN, ha \in BOOLEAN, hh \in BOOLEAN, low \in BOOLEAN :
               pUp.body = ReplyOf(p, hp, a, ha, h, hh, low)
                   => /\ pResp.body.problem
                            = IF hp THEN OrElse(Trim(p), pUp.body)
                              ELSE pUp.body
                      /\ pResp.body.answer = IF ha THEN Trim(a) ELSE <<>>
                      /\ pResp.body.hint = IF hh THEN Trim(h) ELSE <<>>

(***************************************************************************)
(* C23  (SpecPractice)  For a reply made of optional white space, a        *)
(* verdict or none, and an explanation, the endpoint returns correct =     *)
(* true exactly when the verdict is CORRECT, and an explanation that does  *)
(* not begin with CORRECT or INCORRECT.  The verdict is looked for after   *)
(* trimming but stripped only at the very start of the reply, so this      *)
(* fails for a reply that begins with white space.                         *)
(***************************************************************************)
C23_VerdictParsedAndStripped ==
    Checked
        => /\ \A lead \in { <<>>, <<" ">>, <<NL>> },
                 verdict \in { CorrectToken, IncorrectToken,
                               <<"C">> \o ToLowerCase(Tail(CorrectToken)),
                               <<>> },
                 sep \in { <<>>, <<NL>> }, b \in FieldBodies :
                  pUp.body = lead \o verdict \o sep \o b
                      => (pResp.body.correct
                             <=> ToUpperCase(verdict) = CorrectToken)
           /\ ~StartsWith(ToUpperCase(pResp.body.explanation), CorrectToken)
           /\ ~StartsWith(ToUpperCase(pResp.body.explanation), IncorrectToken)

(***************************************************************************)
(* C24  (SpecPractice)  A request whose action is neither generate nor     *)
(* check never leads to a request to the model server, and is answered     *)
(* with status 400 and a body that holds an error message.                 *)
(***************************************************************************)
C24_InvalidActionRejected ==
    pAction \notin { "generate", "check" }
        => /\ pSent = <<>>
           /\ ppc # "fetching"
           /\ ppc = "done"
                 => /\ pResp.status = 400
                    /\ DOMAIN pResp.body = { "error" }
                    /\ pResp.body.error # <<>>

\* the action solve has been answered
C24_Witness ==
    /\ pAction = "solve"
    /\ ppc = "done"
    /\ pResp = InvalidActionResponse
    /\ pSent = <<>>

(***************************************************************************)
(* C27  (Spec)  The relay neither batches nor delays: between any two      *)
(* upstream reads, and when the reading has ended, the token events        *)
(* enqueued for an attached client are, one for one and in order,          *)
(* cleanLatex(c) of the fragment c of every complete line delivered so     *)
(* far; each is the cleanup of that line's fragment alone, no two lines    *)
(* share an event, and a read appends exactly the tokens of the lines it   *)
(* completes.                                                              *)
(***************************************************************************)
C27_NoBatchingNoDelay ==
    /\ [](ClientAttached
            => /\ TokenTexts(out) = CleanAll(Fragments(CompleteLines(Delivered)))
               /\ Len(SelectSeq(out, IsToken))
                     = Len(SelectSeq(CompleteLines(Delivered), CarriesFragment)))
    /\ [][(outState = "open" /\ upPos' # upPos)
            => LET before == Len(CompleteLines(Delivered))
                   lines  == CompleteLines(Delivered')
               IN  TokenTexts(out')
                     = TokenTexts(out)
                         \o CleanAll(Fragments(SubSeq(lines, before + 1,
                                                      Len(lines))))]_vars

\* two lines with fragments, one of them rewritten by cleanLatex, have each
\* given their own token event and the relay has not yet read again
C27_Witness ==
    /\ outState = "open"
    /\ rpc = "reading"
    /\ Len(SelectSeq(CompleteLines(Delivered), CarriesFragment)) = 2
    /\ TokenTexts(out)
          = <<<<"x">>, cleanLatex(<<"[", "$", "x", "$", "]">>)>>
    /\ TokenTexts(out)[2] # <<"[", "$", "x", "$", "]">>

\* the head the messages of both endpoints for a refused connection share
CantConnectHead == "Can't connect to Ollama."

\* the message of the error a failed upstream request raises in an endpoint
OwnMessage(answer) ==
    IF answer.kind = "status" THEN OllamaErrorMessage(answer.body)
    ELSE FetchFailedMessage

(***************************************************************************)
(* C25  (SpecSystem)  No automatic retry: a call of the chat relay and a   *)
(* call of the practice endpoint each make at most one request to the      *)
(* model server, the consumer has made exactly one request per send, a     *)
(* request to the relay is made only in the step in which the user sends,  *)
(* and once the relay, the practice endpoint or a send has ended, with a   *)
(* failure or not, nothing is requested again until the user sends again.  *)
(***************************************************************************)
C25_NoAutomaticRetry ==
    /\ [](/\ upSent <= 1
          /\ Len(pSent) <= 1
          /\ requests = sends)
    /\ [][(requests' # requests)
            => /\ cpc = "idle"
               /\ sends' = sends + 1
               /\ requests' = requests + 1]_vars
    /\ [][(rpc \in {"failed", "closed"})
            => (upSent' = upSent \/ sends' = sends + 1)]_vars
    /\ [][(ppc = "done") => (pSent' = pSent)]_vars

\* the relay got a non-success status and the consumer showed the failure,
\* the practice endpoint's request was refused: one request each
C25_Witness ==
    /\ rpc = "failed"
    /\ upResp.kind = "status"
    /\ upSent = 1
    /\ outcome = "error"
    /\ cpc = "idle"
    /\ requests = 1
    /\ ppc = "done"
    /\ pUp.kind = "refused"
    /\ Len(pSent) = 1

(***************************************************************************)
(* C26  (SpecSession)  A sendMessage call made while a send is in progress *)
(* has no effect: the transcript, the input, the attachment, the           *)
(* conversations and the relay are as before and no request is made.       *)
(* `loading` is set for as long as a send is in progress, and while it is  *)
(* set no step makes a request: at most one chat request is in flight.     *)
(***************************************************************************)
C26_SendWhileLoadingRejected ==
    /\ [](cpc # "idle" <=> loading)
    /\ [][(loading) => (requests' = requests /\ sends' = sends)]_vars
    /\ [][(loading /\ rejected' # rejected)
            => /\ messages' = messages
               /\ input' = input
               /\ attachedFile' = attachedFile
               /\ conversations' = conversations
               /\ stored' = stored
               /\ activeId' = activeId
               /\ relayVars' = relayVars]_vars

\* a call with a text typed and a file attached during the send has returned
\* at the guard of line 342; text and file are still there
C26_Witness ==
    /\ loading
    /\ rejected = "busy"
    /\ input # <<>>
    /\ attachedFile # NoFile
    /\ requests = 1

(***************************************************************************)
(* C29  (SpecSystem)  A refused connection to the model server is answered *)
(* by both endpoints with status 500 and a message that begins with        *)
(* "Can't connect to Ollama."; every other failure of the upstream request *)
(* is answered with status 500 and the message of the failure itself,      *)
(* which does not begin so.                                                *)
(***************************************************************************)
C29_RefusedClassifiedAlike ==
    /\ (rpc = "failed" /\ upResp.kind = "refused")
          => /\ httpResp.status = 500
             /\ httpResp.error[1] = CantConnectHead
    /\ (ppc = "done" /\ ValidAction(pAction) /\ pUp.kind = "refused")
          => /\ pResp.status = 500
             /\ pResp.body.error[1] = CantConnectHead
    /\ (rpc = "failed" /\ upResp.kind # "refused")
          => /\ httpResp.status = 500
             /\ httpResp.error = OwnMessage(upResp)
             /\ httpResp.error[1] # CantConnectHead
    /\ (ppc = "done" /\ ValidAction(pAction)
          /\ pUp.kind \in {"status", "failed"})
          => /\ pResp.status = 500
             /\ pResp.body.error = OwnMessage(pUp)
             /\ pResp.body.error[1] # CantConnectHead

\* both endpoints have answered a refused connection
C29_Witness ==
    /\ rpc = "failed"
    /\ upResp.kind = "refused"
    /\ httpResp = ErrorResponse(CantConnectMessage)
    /\ ppc = "done"
    /\ pUp.kind = "refused"
    /\ pResp = PracticeError(PracticeCantConnectMessage)

\* the last send has ended with the whole body read, and its conversation
\* has been the active one since
SucceededInPlace ==
    /\ outcome = "success"
    /\ cpc = "idle"
    /\ stayed
    /\ activeId # NoActive

\* the conversations of cs that have the active id
ActiveIn(cs) == SelectSeq(cs, LAMBDA c : c.id = activeId)

(***************************************************************************)
(* C30  (SpecSession)  After a send has succeeded with its conversation    *)
(* active throughout, `conversations` and localStorage each hold one       *)
(* conversation with the active id and its messages are the visible        *)
(* transcript; the transcript ends with the user message of the send       *)
(* followed by the one assistant message of the send, whose text is the    *)
(* concatenation of all tokens streamed.                                   *)
(***************************************************************************)
C30_StoredIsTranscript ==
    SucceededInPlace
        => /\ Len(ActiveIn(conversations)) = 1
           /\ ActiveIn(conversations)[1].messages = messages
           /\ ActiveIn(stored) = ActiveIn(conversations)
           /\ Len(messages) >= 2
           /\ messages[Len(messages) - 1].role = "user"
           /\ messages[Len(messages) - 1].id = assistantId - 1
           /\ Last(messages) = AssistantMessage(assistantId, Flatten(processed))
           /\ Cardinality(AssistantEntries) = 1

\* a send in a conversation of an earlier session has streamed two tokens
C30_Witness ==
    /\ SucceededInPlace
    /\ activeId = OldConversation.id
    /\ Len(messages) = 4
    /\ processed = << <<"x">>, <<"y">> >>
    /\ Last(messages).text = <<"x", "y">>
    /\ ActiveIn(stored)[1].messages = messages

\* the bytes of the response body the consumer has read so far
Received == SubSeq(sse, 1, cPos)

\* what the loop of Chat.tsx:416-436 does with the frames of a text that
\* arrives in one read
OneRead(text) ==
    ConsumeFrames(Front(Split(text, <<NL, NL>>)),
                  [fullText |-> <<>>, processed |-> <<>>, updates |-> <<>>,
                   errSeen |-> <<>>, thrown |-> <<>>])

\* the assistant message of the current send is in msgs with text t
ShowsIn(msgs, t) ==
    \E i \in 1..Len(msgs) :
        /\ msgs[i].id = assistantId
        /\ msgs[i].role = "assistant"
        /\ msgs[i].text = t

(***************************************************************************)
(* C28  (SpecConsumer)  Chunk-boundary invariance of the consumer:         *)
(* however the bytes read so far were split into reads, the tokens         *)
(* processed, the accumulated text, the text shown and the partial frame   *)
(* kept are those of one read of all these bytes; a send that reads the    *)
(* body to its end, or is ended by an error frame, has processed the       *)
(* tokens and shows the text that one read of the whole body gives.        *)
(***************************************************************************)
C28_ConsumerChunkInvariance ==
    /\ [](cpc = "streaming"
            => /\ processed = OneRead(Received).processed
               /\ fullText = OneRead(Received).fullText
               /\ cbuffer = Last(Split(Received, <<NL, NL>>))
               /\ AssistantShows(OneRead(Received).fullText))
    /\ [][(cpc = "streaming" /\ outcome' = "success")
            => /\ OneRead(sse).thrown = <<>>
               /\ processed' = OneRead(sse).processed
               /\ ShowsIn(messages', OneRead(sse).fullText)]_vars
    /\ [][(cpc = "streaming" /\ cpc' = "idle" /\ errSeen' # errSeen)
            => /\ OneRead(sse).thrown # <<>>
               /\ processed' = OneRead(sse).processed
               /\ ShowsIn(messages', ErrorText(OneRead(sse).thrown))]_vars

\* the first token has been processed and a read has ended between the two
\* newlines that end the second frame
C28_Witness ==
    /\ cpc = "streaming"
    /\ processed = << <<"x">> >>
    /\ cbuffer = <<DataPrefix, "T", "x", NL>>
    /\ AssistantShows(<<"x">>)

\* the transcript msgs is that of the conversation the current send was
\* started in: it holds the user message of the send
OfSendConversation(msgs) ==
    \E i \in 1..Len(msgs) : msgs[i].id = assistantId - 1

\* a step of the send in progress, not a handler the user has called
SendStep == cpc # "idle" /\ sends' = sends /\ ops' = ops

(***************************************************************************)
(* C31  (SpecSession)  While the visible transcript is not that of the     *)
(* conversation a send was started in (the user has started a new chat,    *)
(* loaded another conversation or deleted the active one), no step of the  *)
(* send changes the visible transcript or the conversations.  The          *)
(* placeholder and the diagnostic are appended to whatever transcript is   *)
(* visible, so this fails.                                                 *)
(***************************************************************************)
C31_SendWritesOwnConversation ==
    [][(SendStep /\ ~OfSendConversation(messages))
          => /\ messages' = messages
             /\ conversations' = conversations]_vars

\* the positions of the transcript that hold a message of the given role
EntriesOf(role) == { i \in 1..Len(messages) : messages[i].role = role }

\* the current send failed after its placeholder had been appended
FailedAfterPlaceholder ==
    outcome = "error" /\ resolved /\ httpResp.status = 200

(***************************************************************************)
(* C32  (SpecConsumer)  Every send adds one user message to the transcript *)
(* in the step that starts it, and its later steps (success, error before  *)
(* or after the placeholder, cancellation) add no user message and at most *)
(* one message at a time; the transcript never holds two messages with the *)
(* reply id of the send, so the placeholder and the diagnostic are never   *)
(* two separate messages, and it holds one user message per send and at    *)
(* most one assistant message per send.                                    *)
(***************************************************************************)
C32_OneUserAtMostOneAssistant ==
    /\ [](Cardinality(AssistantEntries) <= 1)
    /\ [](/\ Cardinality(EntriesOf("user")) = sends
          /\ Cardinality(EntriesOf("assistant")) <= sends)
    /\ [][(sends' = sends + 1)
            => /\ Len(messages') = Len(messages) + 1
               /\ Last(messages').role = "user"
               /\ Front(messages') = messages]_vars
    /\ [][(sends' = sends)
            => /\ EntriesOf("user")' = EntriesOf("user")
               /\ Len(messages') \in {Len(messages), Len(messages) + 1}]_vars

\* a read failed after the placeholder: the one reply message is the diagnostic
C32_Witness ==
    /\ FailedAfterPlaceholder
    /\ cpc = "idle"
    /\ AssistantShows(ErrorText(<<"network error">>))
    /\ Cardinality(EntriesOf("assistant")) = 1

\* the send in progress or the last one has ended
SendEnded == outcome \in {"success", "error", "aborted"}

(***************************************************************************)
(* C33  (SpecConsumer)  Every step in which a send ends, by success, by    *)
(* error or by cancellation, records its outcome, and whenever a send has  *)
(* ended the consumer is idle: loading and streaming are false and the     *)
(* abort controller reference is cleared, so that the busy guard of        *)
(* sendMessage lets a following send pass.                                 *)
(***************************************************************************)
C33_IdleAfterSend ==
    /\ [](SendEnded
            => /\ cpc = "idle"
               /\ loading = FALSE
               /\ streaming = FALSE
               /\ abortCtl = FALSE
               /\ ~Busy)
    /\ [][(cpc # "idle" /\ cpc' = "idle") => SendEnded']_vars
    /\ [][(cpc = "idle" /\ cpc' # "idle")
            => ~SendEnded' /\ loading' /\ streaming' /\ abortCtl']_vars

\* a send that was loading has ended in error and the consumer is idle again
C33_Witness ==
    /\ outcome = "error"
    /\ sends = 1
    /\ cpc = "idle"
    /\ loading = FALSE
    /\ abortCtl = FALSE

(***************************************************************************)
(* C34  (SpecLive)  Under fair scheduling of the two read loops, with an   *)
(* upstream body that ends or fails: a relay that is reading the upstream  *)
(* body eventually leaves its loop with the outbound stream closed, and a  *)
(* consumer that is streaming eventually is idle again, not loading and    *)
(* not streaming.                                                          *)
(***************************************************************************)
C34_ReadLoopsTerminate ==
    /\ (rpc = "reading") ~> (rpc = "closed" /\ outState = "closed")
    /\ (cpc = "streaming")
          ~> (cpc = "idle" /\ loading = FALSE /\ streaming = FALSE)

\* the upstream body of two lines was read to its end, the relay has closed
\* the stream and the consumer has read the stream to its end
C34_Witness ==
    /\ rpc = "closed"
    /\ outState = "closed"
    /\ ~readFailed
    /\ upPos = Len(upBody)
    /\ Len(upBody) > 4
    /\ out # <<>>
    /\ outcome = "success"
    /\ cpc = "idle"

\* this step grades an answer, as correct or as incorrect
GradesCorrect == graded'.correct = graded.correct + 1

GradesIncorrect ==
    graded'.total = graded.total + 1 /\ graded'.correct = graded.correct

\* the order of the four numbers of the statistics
StatsOrdered(st) ==
    /\ 0 <= st.streak
    /\ st.streak <= st.bestStreak
    /\ st.bestStreak <= st.correct
    /\ st.correct <= st.total

(***************************************************************************)
(* C35  (SpecPage)  Starting from the zero statistics, after every         *)
(* sequence of graded answers 0 <= streak <= bestStreak <= correct <=      *)
(* total, in memory and in storage; a step that grades an answer as        *)
(* correct increases streak by 1, and one that grades it as incorrect sets *)
(* streak to 0 and leaves bestStreak unchanged.                            *)
(***************************************************************************)
C35_StatsInvariant ==
    /\ [](StatsOrdered(stats)
            /\ (statsStored # NoStats => StatsOrdered(statsStored)))
    /\ [][GradesCorrect => stats'.streak = stats.streak + 1]_vars
    /\ [][GradesIncorrect
            => /\ stats'.streak = 0
               /\ stats'.bestStreak = stats.bestStreak]_vars

(***************************************************************************)
(* C36  (SpecPage)  Every step that grades an answer increases stats.total *)
(* by 1, and stats.correct by 1 when the answer is correct, also when two  *)
(* checkAnswer calls overlap; the statistics, in memory and in storage,    *)
(* count every graded answer.  Each call adds to the statistics of the     *)
(* render it was made in, so of two overlapping calls the one graded last  *)
(* overwrites the other.                                                   *)
(***************************************************************************)
C36_NoGradingLost ==
    /\ [](stats.total = graded.total /\ stats.correct = graded.correct)
    /\ [](graded.total > 0 => statsStored = stats)
    /\ [][(graded'.total = graded.total + 1)
            => stats'.total = stats.total + 1]_vars
    /\ [][GradesCorrect => stats'.correct = stats.correct + 1]_vars

\* the check calls that settle in this step
SettlingChecks == { c \in calls \ calls' : c.kind = "check" }

(***************************************************************************)
(* C37  (SpecPage)  The feedback grades the problem on display: a feedback *)
(* that is set comes from a check of the current round, and a check that   *)
(* settles after a new problem has been requested changes neither the      *)
(* feedback nor the statistics.  checkAnswer does not look at the problem  *)
(* when its response arrives, so this fails.                               *)
(***************************************************************************)
C37_FeedbackGradesShownProblem ==
    /\ [](feedback # NoFeedback => feedbackRound = round)
    /\ [][\A c \in SettlingChecks :
             c.round # round
                => /\ feedback' = feedback
                   /\ stats' = stats
                   /\ statsStored' = statsStored]_vars

\* the texts a failed check can report
CheckErrors == { FailedToFetch, OllamaErrorMessage(<<"o", "o", "m">>) }

\* a check settles in this step without a grading
CheckFails == SettlingChecks # {} /\ graded' = graded

(***************************************************************************)
(* C38  (SpecPage)  A check that fails, by a response that is no success   *)
(* or by a rejected fetch, leaves the statistics in memory and in storage  *)
(* unchanged: it sets the feedback to an incorrect verdict that carries    *)
(* the error message, resets the checking flag and changes nothing else    *)
(* of the page.                                                            *)
(***************************************************************************)
C38_FailedCheckKeepsStats ==
    [][CheckFails
         => /\ stats' = stats
            /\ statsStored' = statsStored
            /\ feedback'.correct = FALSE
            /\ \E m \in CheckErrors : feedback' = ErrorFeedback(m)
            /\ checking' = FALSE
            /\ UNCHANGED <<practice, userAnswer, generating>>]_vars

\* a second answer has failed to be checked after a first one was graded:
\* the statistics still count the first one only
C38_Witness ==
    /\ feedback = ErrorFeedback(OllamaErrorMessage(<<"o", "o", "m">>))
    /\ ~checking
    /\ stats.total = 1
    /\ statsStored = stats
    /\ started = 4
    /\ calls = {}

====
